---- MODULE Spec2Model ----
(***************************************************************************)
(* A model of the ramify branch-diagram generator: the frontier of active  *)
(* vertices (Generator.columns), the stored minimal index, the layout      *)
(* operations of layout/ops.rs (required_width, marker, mark_and_prepare,   *)
(* column_range, align, fork_align, fork_exact) and one call of            *)
(* Generator::try_write_next_vertex as a single action.                    *)
(*                                                                         *)
(* Indices are 0-based as in the source; a frontier is a TLA+ sequence, so *)
(* entry i of the source is element i + 1 of the sequence.                 *)
(***************************************************************************)
EXTENDS Integers, Sequences, FiniteSets, TLC

\* ------------------------------------------------------------------ bounds
MaxVertices == 4      \* vertices of a tree, under every configuration
MaxDeep == 6          \* vertices of a tree, under the default configuration
MaxKids == 3          \* children one children() call may return
MaxKey == 1           \* keys are 0..MaxKey
MaxLines == 3         \* annotation lines of one vertex
MaxPadding == 1       \* row_padding values 0..MaxPadding
MaxMinWidth == 3      \* min_diagram_width is 0 (the default) or MaxMinWidth
MaxFails == 1         \* calls of a run in which try_children may fail
MaxRetries == 3       \* times try_children may hand back the vertex it was given
MaxWrites == 4        \* writes that may succeed before the writer fails
MaxMonoKey == 3
MaxOpsLen == 4
MaxOpsCol == 5
MaxOpsRows == 4       \* fork_align rows written one after the other on one slice
MaxQueued == 2        \* blanks queued at a time when the writer is run on its own
MaxLineItems == 2     \* primitives per line when the writer is run on its own
MaxBound == 2         \* alignment bound of an annotation line written on its own
MaxRows == 12         \* rows make_singleton may write before it is cut off

\* ------------------------------------------------------- program constants
NoEnd == -1           \* HalfOpen::end() == None
NoIndex == -1         \* Generator.min_index == None
NoFail == -1          \* the writer never fails
EXTRA == 2            \* fork_exact: const EXTRA

Max(a, b) == IF a >= b THEN a ELSE b
Min(a, b) == IF a <= b THEN a ELSE b
\* usize::saturating_sub
SatSub(a, b) == IF a >= b THEN a - b ELSE 0

\* ------------------------------------------------------ frontier helpers
\* cols[i].1 of the source
Col(cols, i) == cols[i + 1].c
\* cols[i].0 of the source
Vtx(cols, i) == cols[i + 1].v
\* (vtx, col)
Entry(vtx, col) == [v |-> vtx, c |-> col]
\* cols[lo..hi]
Slice(cols, lo, hi) == SubSeq(cols, lo + 1, hi)
\* the loop with a range that stops one entry early
AddCols_short(cols, lo, hi, d) ==
    [i \in 1..Len(cols) |->
        IF lo < i /\ i < hi THEN [cols[i] EXCEPT !.c = @ + d] ELSE cols[i]]

\* for (_, c) in cols[lo..hi].iter_mut() { *c = *c + d }
AddCols(cols, lo, hi, d) ==
    [i \in 1..Len(cols) |->
        IF lo < i /\ i <= hi THEN [cols[i] EXCEPT !.c = @ + d] ELSE cols[i]]
\* for (_, c) in cols[lo..hi].iter_mut() { *c = n }
SetCols(cols, lo, hi, n) ==
    [i \in 1..Len(cols) |->
        IF lo < i /\ i <= hi THEN [cols[i] EXCEPT !.c = n] ELSE cols[i]]

\* the inner scan: while idx < cols.len() && cols[idx].1 == cur_col { idx += 1 }
RECURSIVE SkipEqual(_, _, _)
SkipEqual(cols, idx, cur_col) ==
    IF idx < Len(cols) /\ Col(cols, idx) = cur_col
    THEN SkipEqual(cols, idx + 1, cur_col)
    ELSE idx

\* column_range: the scan to the left
RECURSIVE RangeStart(_, _, _)
RangeStart(cols, start, c) ==
    IF start > 0 /\ Col(cols, start - 1) = c
    THEN RangeStart(cols, start - 1, c)
    ELSE start

\* column_range(cols, idx) as the pair [l, r)
column_range(cols, idx) ==
    LET c == Col(cols, idx)
    IN [l |-> RangeStart(cols, idx, c), r |-> SkipEqual(cols, idx + 1, c)]

\* the first loop of required_width: the number of distinct column values
RECURSIVE NumCols(_, _)
NumCols(cols, idx) ==
    IF idx < Len(cols)
    THEN 1 + NumCols(cols, SkipEqual(cols, idx, Col(cols, idx)))
    ELSE 0

\* a fork space that grows with the size of the block: one cell less than
\* the block has entries
extra_fork_space_size(cols, min_index) ==
    LET rg == column_range(cols, min_index) IN rg.r - rg.l - 1

\* required_width: the cells a fork of min_index needs
extra_fork_space(cols, min_index) ==
    LET rg == column_range(cols, min_index)
    IN IF rg.l + 1 = rg.r THEN 0
       ELSE IF min_index = rg.l \/ min_index + 1 = rg.r THEN 1
       ELSE 2

\* a width without the cells of the fork
required_width_nofork(cols, min_index) == NumCols(cols, 0)

\* a width that counts the entries of the frontier instead of its columns
required_width_entries(cols, min_index) ==
    Len(cols) + extra_fork_space(cols, min_index)

required_width(cols, min_index) ==
    NumCols(cols, 0) + extra_fork_space(cols, min_index)

\* the frontier invariant: sorted non-decreasing by column index
Sorted(cols) == \A i \in 1..(Len(cols) - 1) : cols[i].c <= cols[i + 1].c

\* ----------------------------------------------------------- the writer
\* The state threaded through one call: the frontier slice being worked on,
\* the DiagramWriter (the primitives of the line being written, the queued
\* blanks), the finished rows, the offset returned by the last operation,
\* and how the call can stop early: err (an io::Error was returned by a
\* write and propagated with ?), uf (the call panicked: an unsigned
\* subtraction underflowed, or unwrap met None),
\* stuck (make_singleton was cut off after MaxRows rows).  sorted records
\* whether the frontier was sorted after the substitution and after every
\* row written so far.
NewWriter(cols, budget) ==
    [cols |-> cols, line |-> << >>, queued |-> 0, rows |-> << >>,
     ret |-> 0, actual |-> 0, err |-> FALSE, budget |-> budget,
     uf |-> FALSE, stuck |-> FALSE, sorted |-> Sorted(cols)]

Halted(st) == st.err \/ st.uf \/ st.stuck

\* one write to the io::Write: it fails when the budget is used up
Emit(st, item) ==
    IF Halted(st) THEN st
    ELSE IF st.budget = 0 THEN [st EXCEPT !.err = TRUE]
    ELSE [st EXCEPT !.budget = IF @ = NoFail THEN NoFail ELSE @ - 1,
                    !.line = Append(@, item),
                    !.queued = 0]

\* DiagramWriter::write_branch: the queued blanks are flushed in front
write_branch(st, kind, a, b) ==
    Emit(st, [k |-> kind, a |-> a, b |-> b, ws |-> st.queued])

\* the vertex marker is written like a branch of width 1
write_vertex_marker(st, vtx) ==
    Emit(st, [k |-> "Marker", a |-> vtx, b |-> 0, ws |-> st.queued])

\* a queue_blank that writes the blanks at once
queue_blank_eager(st, n) == write_branch(st, "Blank", n, 0)

\* DiagramWriter::queue_blank
queue_blank(st, n) ==
    IF Halted(st) THEN st ELSE [st EXCEPT !.queued = @ + n]

\* a finished row: its primitives, the annotation line it carries (0: none)
\* and the alignment bound of that annotation line
EndRow(st, ann, bound) ==
    IF Halted(st) THEN st
    ELSE IF st.budget = 0 THEN [st EXCEPT !.err = TRUE]
    ELSE [st EXCEPT !.budget = IF @ = NoFail THEN NoFail ELSE @ - 1,
                    !.rows = Append(@, [items |-> st.line, ann |-> ann,
                                        bound |-> bound]),
                    !.line = << >>,
                    !.queued = 0,
                    !.sorted = @ /\ Sorted(st.cols)]

\* DiagramWriter::write_newline
write_newline(st) == EndRow(st, 0, 0)

\* an annotation line written straight behind the diagram part of its row,
\* without padding up to the bound
write_annotation_line_unpadded(st, n, bound) == EndRow(st, n, 0)

\* DiagramWriter::write_annotation_line, for the n-th line of the annotation
write_annotation_line(st, n, bound) == EndRow(st, n, bound)

\* an unsigned subtraction a - b that is not guarded by the code
CheckSub(st, a, b) ==
    IF Halted(st) THEN st
    ELSE IF a < b THEN [st EXCEPT !.uf = TRUE]
    ELSE st

\* ------------------------------------------------------- layout/ops.rs
\* a marker written where the line stands, without the blanks that bring it
\* to its column
marker_noblank(st, vtx, offset, marker_col) ==
    LET s2 == write_vertex_marker(st, vtx)
    IN IF Halted(s2) THEN s2
       ELSE [s2 EXCEPT !.ret = Max(marker_col + 1, offset + 1),
                       !.actual = marker_col + 1]

\* marker: the marker cannot move, so blanks are written before it when the
\* running offset is left of the marker's column.  ret is the next offset
\* requested; actual is the offset the writer has really reached once the
\* marker is written: the marker does not move, so it is the cell after
\* marker_col even when the requested offset had run past it.
marker(st, vtx, offset, marker_col) ==
    IF marker_col >= offset
    THEN LET s1 == write_branch(st, "Blank", marker_col - offset, 0)
             s2 == write_vertex_marker(s1, vtx)
         IN IF Halted(s2) THEN s2
            ELSE [s2 EXCEPT !.ret = marker_col + 1, !.actual = marker_col + 1]
    ELSE LET s2 == write_vertex_marker(st, vtx)
         IN IF Halted(s2) THEN s2
            ELSE [s2 EXCEPT !.ret = Max(marker_col + 1, offset + 1),
                            !.actual = marker_col + 1]

\* a mark_and_prepare that writes the marker where the line stands
mark_and_prepare_noblank(st, cols, vtx, offset, min_index) ==
    LET col == Col(cols, min_index)
        s2 == write_vertex_marker(st, vtx)
    IN IF Halted(s2) THEN s2
       ELSE [s2 EXCEPT !.ret = Max(col + 1, offset + 1),
                       !.actual = col + 1]

\* mark_and_prepare: reads the whole frontier cols (not a slice) and leaves
\* it alone
mark_and_prepare(st, cols, vtx, offset, min_index) ==
    LET rg == column_range(cols, min_index)
        col == Col(cols, min_index)
        s1 == write_branch(st, "Blank", SatSub(col, offset), 0)
        s2 == write_vertex_marker(s1, vtx)
        required_fork_space ==
            IF rg.l + 1 = rg.r THEN 1
            ELSE IF min_index = rg.l \/ min_index + 1 = rg.r THEN 2
            ELSE 3
    IN IF Halted(s2) THEN s2
       ELSE [s2 EXCEPT !.ret = Max(col + 1, offset + required_fork_space),
                       !.actual = col + 1]

\* align: the body of the while loop, for the block that starts at idx
RECURSIVE AlignLoop(_, _, _, _)
AlignLoop(st, start, idx, end) ==
    IF Halted(st) THEN st
    ELSE IF idx >= Len(st.cols) THEN [st EXCEPT !.ret = start]
    ELSE
      LET cols == st.cols
          cur_col == Col(cols, idx)
          next == SkipEqual(cols, idx, cur_col)
      IN IF cur_col >= start
         THEN LET diff == cur_col - start
                  s1 == write_branch(st, "shift_left", diff, 0)
                  s2 == IF Halted(s1) THEN s1
                        ELSE IF diff >= 1
                        THEN [s1 EXCEPT !.cols = SetCols(cols, idx, next,
                                                         cur_col - diff)]
                        ELSE s1
              IN AlignLoop(s2, cur_col + 1, next, end)
         ELSE LET required_shift == start - cur_col
                  s0 == IF next < Len(cols)
                        THEN CheckSub(st, Col(cols, next), cur_col + 1)
                        ELSE st
                  allowed_shift ==
                      IF next < Len(cols)
                      THEN Min(required_shift, Col(cols, next) - cur_col - 1)
                      ELSE IF end # NoEnd
                      THEN Min(required_shift, SatSub(end, cur_col + 1))
                      ELSE required_shift
                  new_col == cur_col + allowed_shift
                  s1 == write_branch(s0, "shift_right", allowed_shift, 0)
                  s2 == IF Halted(s1) THEN s1
                        ELSE [s1 EXCEPT !.cols = SetCols(cols, idx, next,
                                                         new_col)]
                  start1 == IF required_shift > allowed_shift
                            THEN start + 1 ELSE start
              IN AlignLoop(s2, Max(start1, new_col + 1), next, end)

\* an align that pushes every column left of start up to start, whatever
\* stands to its right
align_pushall(st, start, end) ==
    [st EXCEPT !.cols = [i \in 1..Len(st.cols) |->
                            [st.cols[i] EXCEPT !.c = Max(@, start)]],
               !.ret = start + 1]

\* an align that leaves every column where it is
align_noshift(st, start, end) == [st EXCEPT !.ret = start]

\* align(writer, cols, start..end): returns the next free offset in ret
align(st, start, end) == AlignLoop(st, start, 0, end)

\* an operation ran on the slice cols[lo..hi]: what it left there is put
\* back between the parts of the frontier it could not touch
Unslice(res, cols, lo, hi) ==
    [res EXCEPT !.cols = Slice(cols, 0, lo) \o res.cols
                         \o Slice(cols, hi, Len(cols))]

\* align on the slice cols[lo..hi] of the frontier held by st
AlignSlice(st, lo, hi, start, end) ==
    IF Halted(st) THEN st
    ELSE Unslice(align([st EXCEPT !.cols = Slice(st.cols, lo, hi)],
                       start, end),
                 st.cols, lo, hi)

\* align on cols[lo..hi], from the offset the operation before it returned
AlignFrom(st, lo, hi, end) == AlignSlice(st, lo, hi, st.ret, end)

\* the end of a branch of fork_exact: unless a write failed, the columns are
\* renumbered and the next offset returned
Renumber(st, cols, offset) ==
    IF Halted(st) THEN st ELSE [st EXCEPT !.cols = cols, !.ret = offset]

\* fork_exact, min_index == 0 || min_index + 1 == cols.len(): boundary fork
fork_exact_boundary(st, FORK, min_index, offset, end) ==
    LET cols == st.cols
        n == Len(cols)
        cur_col == Col(cols, min_index)
        s0 == CheckSub(st, cur_col, offset)
        space_on_left == cur_col - offset
        can_fork_right == IF end # NoEnd THEN end > cur_col + 1 ELSE TRUE
    IN IF space_on_left = 0
       THEN IF can_fork_right
            THEN IF FORK
                 THEN Renumber(write_branch(s0, "ForkRight", 0, 0),
                               IF min_index = 0
                               THEN AddCols(cols, 1, n, 1)
                               ELSE SetCols(cols, min_index, min_index + 1,
                                            cur_col + 1),
                               cur_col + 2)
                 ELSE IF min_index = 0
                 THEN Renumber(write_branch(write_branch(s0, "Continue", 0, 0),
                                            "Blank", 1, 0),
                               cols, cur_col + 2)
                 ELSE Renumber(write_branch(s0, "ShiftForkRight", 0, 0),
                               AddCols(cols, 0, n, 1), cur_col + 2)
            ELSE Renumber(write_branch(s0, "Continue", 0, 0), cols, cur_col + 2)
       ELSE IF FORK
            THEN LET s1 == IF space_on_left = 1
                           THEN write_branch(s0, "ForkLeft", 0, 0)
                           ELSE write_branch(s0, "ShiftForkLeft",
                                             space_on_left - 2, 1)
                 IN Renumber(s1,
                        IF min_index = 0
                        THEN AddCols(SetCols(cols, 0, 1, cur_col - space_on_left),
                                     1, n, 1 - space_on_left)
                        ELSE AddCols(AddCols(cols, 0, min_index, 0 - space_on_left),
                                     min_index, min_index + 1, 1 - space_on_left),
                        cur_col + 1)
            ELSE IF min_index = 0
            THEN Renumber(write_branch(s0, "ShiftForkLeft", space_on_left - 1, 0),
                          AddCols(cols, 0, n, 0 - space_on_left), cur_col + 1)
            ELSE IF space_on_left = 1
            THEN Renumber(write_branch(write_branch(s0, "Blank", 1, 0),
                                       "Continue", 0, 0),
                          cols, cur_col + 1)
            ELSE Renumber(write_branch(write_branch(s0, "Blank", 1, 0),
                                       "ShiftForkLeft", space_on_left - 2, 0),
                          AddCols(cols, 0, n, 0 - (space_on_left - 1)),
                          cur_col + 1)

\* fork_exact, otherwise: interior fork
fork_exact_interior(st, FORK, min_index, offset, end) ==
    LET cols == st.cols
        n == Len(cols)
        cur_col == Col(cols, min_index)
        s0 == CheckSub(st, cur_col, offset)
        space_on_left == cur_col - offset
        space_on_right == IF end # NoEnd THEN SatSub(end, cur_col + 1) ELSE EXTRA
    IN IF space_on_left + space_on_right >= EXTRA
       THEN IF FORK
            THEN LET forked ==
                        AddCols(AddCols(AddCols(cols, 0, min_index,
                                                0 - space_on_left),
                                        min_index, min_index + 1,
                                        1 - space_on_left),
                                min_index + 1, n, 2 - space_on_left)
                 IN IF space_on_left > EXTRA
                    THEN Renumber(write_branch(s0, "ShiftForkLeft",
                                               space_on_left - EXTRA - 1, EXTRA),
                                  forked, cur_col + 1)
                    ELSE Renumber(write_branch(s0, "fork", space_on_left,
                                               EXTRA - space_on_left),
                                  forked, cur_col + EXTRA - space_on_left + 1)
            ELSE IF space_on_left = 0
            THEN Renumber(write_branch(write_branch(s0, "ShiftForkRight", 0, 0),
                                       "Blank", 1, 0),
                          AddCols(cols, 0, n, 1), cur_col + 3)
            ELSE IF space_on_left = 1
            THEN Renumber(write_branch(write_branch(write_branch(
                                s0, "Blank", 1, 0), "Continue", 0, 0),
                                "Blank", 1, 0),
                          cols, cur_col + 2)
            ELSE Renumber(write_branch(write_branch(s0, "Blank", 1, 0),
                                       "ShiftForkLeft", space_on_left - 2, 0),
                          AddCols(cols, 0, n, 0 - (space_on_left - 1)),
                          cur_col + 1)
       ELSE LET s1 == IF space_on_left > 0
                      THEN write_branch(s0, "Blank", 1, 0) ELSE s0
                s2 == write_branch(s1, "Continue", 0, 0)
                s3 == IF space_on_right > 0
                      THEN write_branch(s2, "Blank", 1, 0) ELSE s2
            IN Renumber(s3, cols, cur_col + 1 + EXTRA - space_on_left)

\* a fork_exact that gives up without asking for room on the right
fork_exact_silent(st, FORK, min_index, offset, end) ==
    IF Halted(st) THEN st
    ELSE LET res == IF min_index = 0 \/ min_index + 1 = Len(st.cols)
                    THEN fork_exact_boundary(st, FORK, min_index, offset, end)
                    ELSE fork_exact_interior(st, FORK, min_index, offset, end)
         IN IF Halted(res) \/ res.cols # st.cols THEN res
            ELSE [res EXCEPT !.ret = Col(st.cols, min_index) + 1]

\* a fork_exact that forks where the block stands and leaves the slack on
\* its left unused
fork_exact_inplace(st, FORK, min_index, offset, end) ==
    IF Halted(st) THEN st
    ELSE IF min_index = 0 \/ min_index + 1 = Len(st.cols)
    THEN fork_exact_boundary(st, FORK, min_index, Col(st.cols, min_index), end)
    ELSE fork_exact_interior(st, FORK, min_index, Col(st.cols, min_index), end)

\* a fork_exact that forks whatever FORK says
fork_exact_always(st, FORK, min_index, offset, end) ==
    IF Halted(st) THEN st
    ELSE IF min_index = 0 \/ min_index + 1 = Len(st.cols)
    THEN fork_exact_boundary(st, TRUE, min_index, offset, end)
    ELSE fork_exact_interior(st, TRUE, min_index, offset, end)

\* fork_exact::<FORK>(writer, cols, min_index, offset..end)
fork_exact(st, FORK, min_index, offset, end) ==
    IF Halted(st) THEN st
    ELSE IF min_index = 0 \/ min_index + 1 = Len(st.cols)
    THEN fork_exact_boundary(st, FORK, min_index, offset, end)
    ELSE fork_exact_interior(st, FORK, min_index, offset, end)

\* fork_exact on the slice cols[lo..hi]
ForkExactSlice(st, FORK, lo, hi, min_index, offset, end) ==
    IF Halted(st) THEN st
    ELSE Unslice(fork_exact([st EXCEPT !.cols = Slice(st.cols, lo, hi)],
                            FORK, min_index, offset, end),
                 st.cols, lo, hi)

\* fork_exact on cols[lo..hi], from the offset the operation before it
\* returned
ForkExactFrom(st, FORK, lo, hi, min_index, end) ==
    ForkExactSlice(st, FORK, lo, hi, min_index, st.ret, end)

\* a fork_align that never hands an isolated target over to align
fork_align_nodelegate(st, FORK, min_index, start, end) ==
    IF Halted(st) THEN st
    ELSE
      LET rg == column_range(st.cols, min_index)
          n == Len(st.cols)
          fork_limit == IF rg.r < n THEN Col(st.cols, rg.r) ELSE end
      IN AlignFrom(
            ForkExactFrom(AlignSlice(st, 0, rg.l, start, NoEnd),
                          FORK, rg.l, rg.r, min_index - rg.l, fork_limit),
            rg.r, n, end)

\* a fork_align that forks as soon as it can, whatever FORK says
fork_align_eager(st, FORK, min_index, start, end) ==
    IF Halted(st) THEN st
    ELSE
      LET rg == column_range(st.cols, min_index)
          n == Len(st.cols)
          fork_limit == IF rg.r < n THEN Col(st.cols, rg.r) ELSE end
      IN IF rg.l + 1 = rg.r
         THEN align(st, start, end)
         ELSE AlignFrom(
                ForkExactFrom(AlignSlice(st, 0, rg.l, start, NoEnd),
                              TRUE, rg.l, rg.r, min_index - rg.l, fork_limit),
                rg.r, n, end)

\* a fork_align that gathers every entry in the column start
fork_align_merge(st, FORK, min_index, start, end) ==
    [st EXCEPT !.cols = [i \in 1..Len(st.cols) |->
                            [st.cols[i] EXCEPT !.c = start]],
               !.ret = start + 1]

\* fork_align::<FORK>(writer, cols, min_index, start..end)
fork_align(st, FORK, min_index, start, end) ==
    IF Halted(st) THEN st
    ELSE
      LET rg == column_range(st.cols, min_index)
          n == Len(st.cols)
      IN IF rg.l + 1 = rg.r
         THEN align(st, start, end)
         ELSE LET fork_limit == IF rg.r < n THEN Col(st.cols, rg.r) ELSE end
              IN AlignFrom(
                    ForkExactFrom(AlignSlice(st, 0, rg.l, start, NoEnd),
                                  FORK, rg.l, rg.r, min_index - rg.l,
                                  fork_limit),
                    rg.r, n, end)

\* fork_align on the slice cols[lo..hi]
ForkAlignSlice(st, FORK, lo, hi, min_index, start, end) ==
    IF Halted(st) THEN st
    ELSE Unslice(fork_align([st EXCEPT !.cols = Slice(st.cols, lo, hi)],
                            FORK, min_index, start, end),
                 st.cols, lo, hi)

\* fork_align on cols[lo..hi], from the offset the operation before it
\* returned
ForkAlignFrom(st, FORK, lo, hi, min_index, end) ==
    ForkAlignSlice(st, FORK, lo, hi, min_index, st.ret, end)

\* ------------------------------------------------------------ layout.rs
\* B::GUTTER_WIDTH of the default style B = RoundedCorners
GUTTER_WIDTH == 0

\* the cells a primitive occupies on its line
CellWidth(item) ==
    CASE item.k = "Blank" -> item.a
      [] item.k = "Continue" -> 1
      [] item.k = "Marker" -> 1
      [] item.k = "shift_left" -> item.a + 1
      [] item.k = "shift_right" -> item.a + 1
      [] item.k = "ForkLeft" -> item.a + 2
      [] item.k = "ForkRight" -> item.a + 2
      [] item.k = "ShiftForkLeft" -> item.a + item.b + 2
      [] item.k = "ShiftForkRight" -> item.a + item.b + 2
      [] item.k = "fork" -> item.a + item.b + 1

\* the cells written on a line, queued blanks included
RECURSIVE LineCells(_)
LineCells(line) ==
    IF line = << >> THEN 0
    ELSE LineCells(SubSeq(line, 1, Len(line) - 1))
         + line[Len(line)].ws + CellWidth(line[Len(line)])

\* DiagramWriter::line_char_count: line_width as resolve_whitespace keeps it
line_char_count(st) ==
    LET cells == LineCells(st.line)
    IN IF cells = 0 THEN 0 ELSE (GUTTER_WIDTH + 1) * cells - GUTTER_WIDTH

\* the callbacks of the ramifier, as they are logged
Event(f, vtx) == [f |-> f, v |-> vtx]

\* get_vtx_data with the annotation fetched after try_children
get_vtx_data_late(vtx) ==
    << Event("marker", vtx), Event("try_children", vtx),
       Event("annotation", vtx) >>

\* get_vtx_data: marker, annotation, then try_children, which consumes vtx
get_vtx_data(vtx) ==
    << Event("marker", vtx), Event("annotation", vtx),
       Event("try_children", vtx) >>

\* a fold that prefers the later of two elements with equal keys
RECURSIVE MinFold_le(_, _, _, _)
MinFold_le(cols, keys, i, best) ==
    IF i >= Len(cols) THEN best
    ELSE MinFold_le(cols, keys, i + 1,
                    IF keys[Vtx(cols, i)] <= keys[Vtx(cols, best)]
                    THEN i ELSE best)

\* Iterator::min_by_key keeps the earlier element unless a later key is
\* strictly smaller
RECURSIVE MinFold(_, _, _, _)
MinFold(cols, keys, i, best) ==
    IF i >= Len(cols) THEN best
    ELSE MinFold(cols, keys, i + 1,
                 IF keys[Vtx(cols, i)] < keys[Vtx(cols, best)]
                 THEN i ELSE best)

\* min_by_key replaced by a scan in which the last minimal entry wins
compute_min_idx_last(cols, keys) ==
    IF cols = << >> THEN NoIndex ELSE MinFold_le(cols, keys, 1, 0)

\* a scan that takes a frontier of one entry for an empty one
compute_min_idx_single(cols, keys) ==
    IF Len(cols) <= 1 THEN NoIndex ELSE MinFold(cols, keys, 1, 0)

\* Generator::compute_min_idx, and the same expression in
\* try_write_next_vertex
compute_min_idx(cols, keys) ==
    IF cols = << >> THEN NoIndex ELSE MinFold(cols, keys, 1, 0)

\* get_key is called once for every entry of the frontier
GetKeyLog(cols) == [i \in 1..Len(cols) |-> Event("get_key", cols[i].v)]

\* Vec::swap_remove(i): the last element takes the place of element i
swap_remove(cols, i) ==
    LET n == Len(cols)
    IN [j \in 1..(n - 1) |-> IF j = i + 1 THEN cols[n] ELSE cols[j]]

\* Vec::splice(i..i + 1, new): element i is replaced by the elements of new
splice(cols, i, new) ==
    Slice(cols, 0, i) \o new \o Slice(cols, i + 1, Len(cols))

\* children.into_iter().zip(repeat(col))
ZipCol(kids, col) == [j \in 1..Len(kids) |-> Entry(kids[j], col)]

\* the substitution without self.columns.push(last): the entry that
\* swap_remove moved is lost
substitute_ok_drop(cols, min_idx, kids) ==
    LET col == Col(cols, min_idx)
    IN IF min_idx + 1 = Len(cols)
       THEN Slice(cols, 0, Len(cols) - 1) \o ZipCol(kids, col)
       ELSE splice(swap_remove(cols, min_idx), min_idx, ZipCol(kids, col))

\* the substitution with the children spliced in after the entry that
\* swap_remove moved, which stays where it is
substitute_ok_moved(cols, min_idx, kids) ==
    LET col == Col(cols, min_idx)
    IN IF min_idx + 1 = Len(cols)
       THEN Slice(cols, 0, Len(cols) - 1) \o ZipCol(kids, col)
       ELSE LET swapped == swap_remove(cols, min_idx)
            IN Slice(swapped, 0, min_idx + 1) \o ZipCol(kids, col)
               \o Slice(swapped, min_idx + 1, Len(swapped))

\* the substitution that leaves the consumed entry in the frontier
substitute_ok_keep(cols, min_idx, kids) ==
    Slice(cols, 0, min_idx + 1) \o ZipCol(kids, Col(cols, min_idx))
    \o Slice(cols, min_idx + 1, Len(cols))

\* the substitution of try_write_next_vertex when try_children returned
\* Ok(kids): the new frontier
substitute_ok(cols, min_idx, kids) ==
    LET col == Col(cols, min_idx)
    IN IF min_idx + 1 = Len(cols)
       THEN Slice(cols, 0, Len(cols) - 1) \o ZipCol(kids, col)
       ELSE LET swapped == swap_remove(cols, min_idx)
                last == swapped[min_idx + 1]
            IN Append(splice(swapped, min_idx, ZipCol(kids, col)), last)

\* the restore without self.columns.swap(last_idx, min_idx)
substitute_err_noswap(cols, min_idx, replacement) ==
    LET col == Col(cols, min_idx)
    IN IF min_idx + 1 = Len(cols)
       THEN Append(Slice(cols, 0, Len(cols) - 1), Entry(replacement, col))
       ELSE Append(swap_remove(cols, min_idx), Entry(replacement, col))

\* the substitution when try_children returned Err(replacement): the entry
\* is put back with the replacement vertex
substitute_err(cols, min_idx, replacement) ==
    LET col == Col(cols, min_idx)
    IN IF min_idx + 1 = Len(cols)
       THEN Append(Slice(cols, 0, Len(cols) - 1), Entry(replacement, col))
       ELSE LET swapped == swap_remove(cols, min_idx)
                last_idx == Len(swapped)
                pushed == Append(swapped, Entry(replacement, col))
            IN [j \in 1..Len(pushed) |->
                  IF j = last_idx + 1 THEN pushed[min_idx + 1]
                  ELSE IF j = min_idx + 1 THEN pushed[last_idx + 1]
                  ELSE pushed[j]]

\* a diagram width that takes the slack but not min_diagram_width
compute_diagram_width_nomin(cfg, base_diagram_width) ==
    base_diagram_width + (IF cfg.width_slack THEN 1 ELSE 0)

\* Generator::compute_diagram_width
compute_diagram_width(cfg, base_diagram_width) ==
    Max(base_diagram_width + (IF cfg.width_slack THEN 1 ELSE 0),
        cfg.min_diagram_width)

\* Generator::compute_diagram_width_no_base
compute_diagram_width_no_base(cfg, cols, min_idx) ==
    compute_diagram_width(cfg, required_width(cols, min_idx))

\* is_singleton that only looks to the left of idx
is_singleton_left(cols, idx) ==
    column_range(cols, idx).l = idx

\* Generator::is_singleton
is_singleton(cols, idx) ==
    LET rg == column_range(cols, idx) IN rg.l + 1 = rg.r

\* a try_make_singleton that reserves the space of the fork but never
\* performs it
try_make_singleton_nofork(st, idx, diagram_width) ==
    write_newline(fork_align(st, FALSE, idx, 0, diagram_width))

\* a try_make_singleton that ends the row without writing it
try_make_singleton_blank(st, idx, diagram_width) == write_newline(st)

\* Generator::try_make_singleton: one fork_align row and a newline
try_make_singleton(st, idx, diagram_width) ==
    write_newline(fork_align(st, TRUE, idx, 0, diagram_width))

\* a make_singleton that writes no row
make_singleton_none(st, idx, diagram_width, fuel) == st

\* Generator::make_singleton: rows until idx is alone in its column; the
\* loop is cut off (stuck) after fuel rows
RECURSIVE make_singleton(_, _, _, _)
make_singleton(st, idx, diagram_width, fuel) ==
    IF Halted(st) THEN st
    ELSE IF is_singleton(st.cols, idx) THEN st
    ELSE IF fuel = 0 THEN [st EXCEPT !.stuck = TRUE]
    ELSE make_singleton(try_make_singleton(st, idx, diagram_width),
                        idx, diagram_width, fuel - 1)

\* padding rows that stop one row short of row_padding
RECURSIVE PaddingRows_short(_, _, _, _)
PaddingRows_short(st, idx, diagram_width, n) ==
    IF n <= 1 THEN st
    ELSE PaddingRows_short(try_make_singleton(st, idx, diagram_width),
                           idx, diagram_width, n - 1)

\* for _ in 0..row_padding { try_make_singleton }
RECURSIVE PaddingRows(_, _, _, _)
PaddingRows(st, idx, diagram_width, n) ==
    IF n = 0 THEN st
    ELSE PaddingRows(try_make_singleton(st, idx, diagram_width),
                     idx, diagram_width, n - 1)

\* blanks queued up to the offset the marker returned, whatever the column
\* of the next block
QueueGap_offset(st, r) ==
    IF Halted(st) THEN st
    ELSE queue_blank(CheckSub(st, st.ret, st.actual), st.ret - st.actual)

\* if r < self.columns.len() { writer.queue_blank(offset.min(columns[r].1)
\*                                                - actual); ... }
QueueGap(st, r) ==
    IF Halted(st) THEN st
    ELSE LET gap == Min(st.ret, Col(st.cols, r))
         IN queue_blank(CheckSub(st, gap, st.actual), gap - st.actual)

\* ops::marker at the offset the operation before it returned
MarkFrom(st, vtx, col) ==
    IF Halted(st) THEN st ELSE marker(st, vtx, st.ret, col)

\* ops::mark_and_prepare at the offset the operation before it returned
MarkAndPrepareFrom(st, vtx, next_min_idx) ==
    IF Halted(st) THEN st
    ELSE mark_and_prepare(st, st.cols, vtx, st.ret, next_min_idx)

\* if r < self.columns.len() { queue_blank(..); align(cols[r..], ..) }
AlignRight(st, r, diagram_width) ==
    IF Halted(st) \/ ~(r < Len(st.cols)) THEN st
    ELSE AlignFrom(QueueGap(st, r), r, Len(st.cols), diagram_width)

\* if r < self.columns.len() { queue_blank(..); fork_align(cols[r..], ..) }
ForkAlignRight(st, FORK, r, next_min_idx, diagram_width) ==
    IF Halted(st) \/ ~(r < Len(st.cols)) THEN st
    ELSE ForkAlignFrom(QueueGap(st, r), FORK, r, Len(st.cols),
                       next_min_idx - r, diagram_width)

\* the marker row when the next minimal index lands before the marker
MarkerRowBefore(st, vtx, col, l, r, next_min_idx, delay_fork, diagram_width) ==
    AlignRight(MarkFrom(ForkAlignSlice(st, ~delay_fork, 0, l, next_min_idx,
                                       0, col),
                        vtx, col),
               r, diagram_width)

\* the marker row when the next minimal index is a child of the marker
MarkerRowInside(st, vtx, col, l, r, next_min_idx, delay_fork, diagram_width) ==
    AlignRight(MarkAndPrepareFrom(AlignSlice(st, 0, l, 0, NoEnd), vtx,
                                  next_min_idx),
               r, diagram_width)

\* the marker row when the next minimal index follows the marker
MarkerRowAfter(st, vtx, col, l, r, next_min_idx, delay_fork, diagram_width) ==
    ForkAlignRight(MarkFrom(AlignSlice(st, 0, l, 0, NoEnd), vtx, col),
                   ~delay_fork, r, next_min_idx, diagram_width)

\* the three cases of try_write_next_vertex for the marker row
MarkerRow(st, vtx, col, l, r, next_min_idx, delay_fork, diagram_width) ==
    IF next_min_idx < l
    THEN MarkerRowBefore(st, vtx, col, l, r, next_min_idx, delay_fork,
                         diagram_width)
    ELSE IF next_min_idx < r
    THEN MarkerRowInside(st, vtx, col, l, r, next_min_idx, delay_fork,
                         diagram_width)
    ELSE MarkerRowAfter(st, vtx, col, l, r, next_min_idx, delay_fork,
                        diagram_width)

\* for line in lines { fork_align::<false>; write_annotation_line(prev_line) }
\* writes the annotation lines k..last - 1
RECURSIVE MiddleLines(_, _, _, _, _, _)
MiddleLines(st, k, last, next_min_idx, diagram_width, alignment) ==
    IF k >= last THEN st
    ELSE MiddleLines(
            write_annotation_line(
                fork_align(st, FALSE, next_min_idx, 0, diagram_width),
                k, alignment),
            k + 1, last, next_min_idx, diagram_width, alignment)

\* the rows of a call after its marker row: the annotation lines, the
\* padding rows and the rows of make_singleton
TrailingRows(st, next_min_idx, diagram_width, cfg, L) ==
    LET alignment ==
            Max((GUTTER_WIDTH + 1) * diagram_width - GUTTER_WIDTH,
                line_char_count(st))
        s1 == IF L >= 1 THEN write_annotation_line(st, 1, alignment)
              ELSE write_newline(st)
        s2 == IF L >= 2
              THEN write_annotation_line(
                      fork_align(MiddleLines(s1, 2, L, next_min_idx,
                                             diagram_width, alignment),
                                 TRUE, next_min_idx, 0, diagram_width),
                      L, alignment)
              ELSE s1
        s3 == PaddingRows(s2, next_min_idx, diagram_width, cfg.row_padding)
    IN make_singleton(s3, next_min_idx, diagram_width, MaxRows)

\* the rows of the call that draws the last vertex: the marker with the
\* whole annotation
RECURSIVE FinalLines(_, _, _, _)
FinalLines(st, k, L, alignment) ==
    IF k > L THEN st
    ELSE FinalLines(write_annotation_line(st, k, alignment), k + 1, L,
                    alignment)

\* the last vertex followed by a padding row when row_padding asks for one
FinalRows_padded(st, vtx, col, cfg, L) ==
    LET s1 == marker(st, vtx, 0, col)
        diagram_width == compute_diagram_width(cfg, s1.ret)
        alignment == (GUTTER_WIDTH + 1) * diagram_width - GUTTER_WIDTH
        s2 == IF L >= 1 THEN FinalLines(s1, 1, L, alignment)
              ELSE write_newline(s1)
    IN IF Halted(s1) THEN s1
       ELSE IF cfg.row_padding > 0 THEN write_newline(s2)
       ELSE s2

FinalRows(st, vtx, col, cfg, L) ==
    LET s1 == marker(st, vtx, 0, col)
        diagram_width == compute_diagram_width(cfg, s1.ret)
        alignment == (GUTTER_WIDTH + 1) * diagram_width - GUTTER_WIDTH
    IN IF Halted(s1) THEN s1
       ELSE IF L >= 1 THEN FinalLines(s1, 1, L, alignment)
       ELSE write_newline(s1)

\* try_write_next_vertex after a successful substitution: new_cols is the
\* frontier with the children spliced in, next_min_idx its minimal index
WriteRows(new_cols, vtx, col, l, r, next_min_idx, cfg, L, budget) ==
    LET st == NewWriter(new_cols, budget)
    IN IF next_min_idx = NoIndex
       THEN FinalRows(st, vtx, col, cfg, L)
       ELSE LET diagram_width ==
                    compute_diagram_width_no_base(cfg, new_cols, next_min_idx)
                delay_fork == cfg.row_padding > 0
            IN TrailingRows(
                  MarkerRow(st, vtx, col, l, r, next_min_idx, delay_fork,
                            diagram_width),
                  next_min_idx, diagram_width, cfg, L)

\* handle_no_children with the padding rows written before the rows of
\* make_singleton
handle_no_children_padded(cols, new_min_idx, cfg, budget) ==
    IF new_min_idx = NoIndex
    THEN [NewWriter(cols, budget) EXCEPT !.uf = TRUE]
    ELSE make_singleton(
            PaddingRows(NewWriter(cols, budget), new_min_idx,
                        compute_diagram_width_no_base(cfg, cols, new_min_idx),
                        cfg.row_padding),
            new_min_idx,
            compute_diagram_width_no_base(cfg, cols, new_min_idx),
            MaxRows)

\* Generator::handle_no_children: the rows that prepare the new minimal
\* index; compute_min_idx().unwrap() panics on an empty frontier
handle_no_children(cols, new_min_idx, cfg, budget) ==
    IF new_min_idx = NoIndex
    THEN [NewWriter(cols, budget) EXCEPT !.uf = TRUE]
    ELSE make_singleton(NewWriter(cols, budget), new_min_idx,
                        compute_diagram_width_no_base(cfg, cols, new_min_idx),
                        MaxRows)

\* ------------------------------------------------------------ the state
VARIABLES
    columns,     \* Generator.columns: the frontier, entries (vertex, column)
    min_index,   \* Generator.min_index, NoIndex for None
    config,      \* Generator.config: row_padding, width_slack, min_diagram_width
    keys,        \* the ramifier: get_key of the active vertices (0 for the others)
    nv,          \* the ramifier: the number of vertices created so far
    ret,         \* the result of the last call
    rows,        \* the rows the last call wrote
    log,         \* the ramifier callbacks the last call made, in order
    drawn,       \* per vertex, the marker rows written so far
    consumed,    \* per vertex, the try_children calls made so far
    nfail,       \* the calls that returned TryChildrenFailed so far
    nrep,        \* the vertices that try_children created as replacements
    last,        \* what the last call did: the vertex it took, its block ...
    w            \* an operation of layout/ops or of the DiagramWriter run on
                 \* its own: its arguments, the writer and slice before and after

vars == << columns, min_index, config, keys, nv, ret, rows, log, drawn,
           consumed, nfail, nrep, last, w >>

\* the vertices of the tree and the replacements of failed calls
Vertices == 1..(MaxDeep + MaxFails)
Keys == 0..MaxKey
Configs == [row_padding : 0..MaxPadding, width_slack : BOOLEAN,
            min_diagram_width : {0, MaxMinWidth}]

NoCall == [op |-> "init", vtx |-> 0, key |-> 0, col |-> 0, l |-> 0, r |-> 0,
           L |-> 0, sorted |-> TRUE, uf |-> FALSE]

\* no operation has been run on its own
NoOp == [op |-> "none", FORK |-> FALSE, idx |-> 0, start |-> 0, end |-> NoEnd,
         n |-> 0, nfork |-> 0,
         before |-> NewWriter(<< >>, NoFail), st |-> NewWriter(<< >>, NoFail)]

\* Generator::init(root, ramifier, config)
Init ==
    /\ columns = << Entry(1, 0) >>
    /\ min_index = 0
    /\ config \in Configs
    /\ \E k \in Keys : keys = [v \in Vertices |-> IF v = 1 THEN k ELSE 0]
    /\ nv = 1
    /\ ret = "none"
    /\ rows = << >>
    /\ log = << >>
    /\ drawn = [v \in Vertices |-> 0]
    /\ consumed = [v \in Vertices |-> 0]
    /\ nfail = 0
    /\ nrep = 0
    /\ w = NoOp
    /\ last = NoCall

\* the marker rows of vertex v among the rows a call wrote
MarkerCount(rs, v) ==
    Cardinality({ p \in { q \in (1..Len(rs)) \X (1..MaxRows) :
                            q[2] <= Len(rs[q[1]].items) } :
                    /\ rs[p[1]].items[p[2]].k = "Marker"
                    /\ rs[p[1]].items[p[2]].a = v })

\* how a call ends, from the writer state it leaves; a call that panics (an
\* unsigned subtraction underflows) ends the use of the generator
Outcome(st, normal) ==
    IF st.uf \/ st.stuck THEN "panic" ELSE IF st.err THEN "io" ELSE normal

\* try_write_next_vertex on a non-empty frontier when try_children returns
\* Ok: n children with keys ks, an annotation of L lines
CallOk(n, ks, L, budget) ==
    /\ ret # "panic"
    /\ min_index # NoIndex
    /\ LET min_idx == min_index
           vtx == Vtx(columns, min_idx)
           col == Col(columns, min_idx)
           kids == [j \in 1..n |-> nv + j]
           new_keys == [v \in Vertices |->
                          IF v > nv /\ v <= nv + n THEN ks[v - nv] ELSE keys[v]]
           new_cols == substitute_ok(columns, min_idx, kids)
           next_min_idx == compute_min_idx(new_cols, new_keys)
           child_count == Len(new_cols) + 1 - Len(columns)
           l == min_idx
           r == min_idx + child_count
       IN \E st \in { WriteRows(new_cols, vtx, col, l, r, next_min_idx,
                                 config, L, budget) } :
          /\ columns' = st.cols
          /\ min_index' = next_min_idx
          /\ keys' = [new_keys EXCEPT ![vtx] = 0]
          /\ nv' = nv + n
          /\ ret' = Outcome(st, IF next_min_idx = NoIndex THEN "false"
                                ELSE "true")
          /\ rows' = st.rows
          /\ log' = get_vtx_data(vtx) \o GetKeyLog(new_cols)
          /\ drawn' = [v \in Vertices |-> drawn[v] + MarkerCount(st.rows, v)]
          /\ consumed' = [consumed EXCEPT ![vtx] = @ + 1]
          /\ last' = [op |-> "ok", vtx |-> vtx, key |-> keys[vtx], col |-> col,
                      l |-> l, r |-> r, L |-> L, sorted |-> st.sorted,
                      uf |-> st.uf]
    /\ UNCHANGED << config, nfail, nrep, w >>

\* try_write_next_vertex when try_children returns Err(replacement): the
\* replacement is the vertex itself (fresh = FALSE) or a new vertex with key k
CallErr(fresh, k, budget) ==
    /\ ret # "panic"
    /\ min_index # NoIndex
    /\ LET min_idx == min_index
           vtx == Vtx(columns, min_idx)
           col == Col(columns, min_idx)
           replacement == IF fresh THEN nv + 1 ELSE vtx
           new_keys == IF fresh THEN [keys EXCEPT ![vtx] = 0, ![nv + 1] = k]
                       ELSE keys
           new_cols == substitute_err(columns, min_idx, replacement)
           new_min_idx == compute_min_idx(new_cols, new_keys)
       IN \E st \in { handle_no_children(new_cols, new_min_idx, config,
                                          budget) } :
          /\ columns' = st.cols
          /\ min_index' = new_min_idx
          /\ keys' = new_keys
          /\ nv' = IF fresh THEN nv + 1 ELSE nv
          /\ ret' = Outcome(st, "failed")
          /\ rows' = st.rows
          /\ log' = get_vtx_data(vtx) \o GetKeyLog(new_cols)
          /\ drawn' = [v \in Vertices |-> drawn[v] + MarkerCount(st.rows, v)]
          /\ consumed' = [consumed EXCEPT ![vtx] = @ + 1]
          /\ last' = [op |-> "err", vtx |-> vtx, key |-> keys[vtx], col |-> col,
                      l |-> min_idx, r |-> min_idx + 1, L |-> 0,
                      sorted |-> st.sorted, uf |-> st.uf]
          /\ nfail' = nfail + 1
          /\ nrep' = IF fresh THEN nrep + 1 ELSE nrep
    /\ UNCHANGED << config, w >>

\* a call on an empty frontier that ends the line it never began
CallTerminal_newline ==
    /\ ret # "panic"
    /\ min_index = NoIndex
    /\ ret' = "false"
    /\ rows' = write_newline(NewWriter(columns, NoFail)).rows
    /\ log' = << >>
    /\ last' = [NoCall EXCEPT !.op = "terminal"]
    /\ UNCHANGED << columns, min_index, config, keys, nv, drawn, consumed,
                    nfail, nrep, w >>

\* try_write_next_vertex on an empty frontier: Ok(false) at once
CallTerminal ==
    /\ ret # "panic"
    /\ min_index = NoIndex
    /\ ret' = "false"
    /\ rows' = << >>
    /\ log' = << >>
    /\ last' = [NoCall EXCEPT !.op = "terminal"]
    /\ UNCHANGED << columns, min_index, config, keys, nv, drawn, consumed,
                    nfail, nrep, w >>

\* a change of the configuration through Generator::config_mut
ConfigMut(cfg) ==
    /\ cfg # config
    /\ config' = cfg
    /\ UNCHANGED << columns, min_index, keys, nv, ret, rows, log, drawn,
                    consumed, nfail, nrep, last, w >>

\* the tree has room for n more vertices when it may have cap vertices
Room(n, cap) == nv - nrep + n <= cap

\* one call of try_write_next_vertex with a ramifier that implements
\* TryRamify, on a writer that does not fail, for a tree of at most cap
\* vertices
TryCall(cap) ==
    \/ \E n \in 0..MaxKids, L \in 0..MaxLines :
         \E ks \in [1..n -> Keys] : Room(n, cap) /\ CallOk(n, ks, L, NoFail)
    \/ \E fresh \in BOOLEAN, k \in Keys :
         nfail < MaxFails /\ CallErr(fresh, k, NoFail)
    \/ CallTerminal

\* every configuration, trees of at most MaxVertices vertices
Next ==
    \/ TryCall(MaxVertices)
    \/ \E cfg \in Configs : ConfigMut(cfg)

Spec == Init /\ [][Next]_vars

\* Config::new()
DefaultConfig ==
    [row_padding |-> 0, width_slack |-> FALSE, min_diagram_width |-> 0]

\* the default configuration, never changed, trees of at most MaxDeep
\* vertices
InitDeep == Init /\ config = DefaultConfig

NextDeep == TryCall(MaxDeep)

SpecDeep == InitDeep /\ [][NextDeep]_vars

\* one call of write_next_vertex: the ramifier implements Ramify, so
\* try_children always returns Ok, and the writer does not fail
RamifyCall ==
    \/ \E n \in 0..MaxKids, L \in 0..MaxLines :
         \E ks \in [1..n -> Keys] :
            Room(n, MaxVertices) /\ CallOk(n, ks, L, NoFail)
    \/ CallTerminal

NextRamify ==
    \/ RamifyCall
    \/ \E cfg \in Configs : ConfigMut(cfg)

\* what a call on a non-empty frontier does to consumed: it consumes the
\* vertex at the stored minimal index.  No other step of NextRamify changes
\* consumed, and a call with no children is possible whenever the frontier
\* is not empty, so Consume is enabled exactly when such a call is.
Consume ==
    /\ ret # "panic"
    /\ min_index # NoIndex
    /\ consumed' = [consumed EXCEPT ![Vtx(columns, min_index)] = @ + 1]

\* the caller's loop, while generator.write_next_vertex(&mut writer)? {},
\* keeps calling as long as the frontier is not empty
SpecRamify == Init /\ [][NextRamify]_vars /\ WF_consumed(Consume)

\* a ramifier whose try_children may fail up to MaxRetries times, each time
\* handing back the vertex it was given, before the caller tries again
RetryCall ==
    \/ RamifyCall
    \/ nfail < MaxRetries /\ CallErr(FALSE, 0, NoFail)

NextRetry ==
    \/ RetryCall
    \/ \E cfg \in Configs : ConfigMut(cfg)

SpecRetry == Init /\ [][NextRetry]_vars

\* the writes of a call that succeed before the io::Write returns an error
Budgets == {NoFail} \cup (0..MaxWrites)

\* write_next_vertex on a writer that may fail at any write of the call
IoCall ==
    \/ \E n \in 0..MaxKids, L \in 0..1, b \in Budgets :
         \E ks \in [1..n -> Keys] :
            Room(n, MaxVertices) /\ CallOk(n, ks, L, b)
    \/ CallTerminal

SpecIo == InitDeep /\ [][IoCall]_vars

\* the keys of n children that are iterated in any order
Monotone_any(n) == [1..n -> 0..MaxMonoKey]

\* the keys of n children that are iterated in strictly increasing or in
\* strictly decreasing key order
Monotone(n) ==
    { ks \in [1..n -> 0..MaxMonoKey] :
        \/ \A i \in 1..(n - 1) : ks[i] < ks[i + 1]
        \/ \A i \in 1..(n - 1) : ks[i] > ks[i + 1] }

\* one call for a ramifier whose children come in sorted key order, on a
\* writer that does not fail
MonotoneCall ==
    \/ \E n \in 0..MaxKids, L \in 0..1 :
         \E ks \in Monotone(n) : Room(n, MaxDeep) /\ CallOk(n, ks, L, NoFail)
    \/ CallTerminal

\* the default configuration, children in sorted key order, trees of at
\* most MaxDeep vertices
SpecMonotone == InitDeep /\ [][MonotoneCall]_vars

\* the slices an operation of layout/ops can be given: sorted by column,
\* at most MaxOpsLen entries in the columns 0..MaxOpsCol
OpsFrontiers ==
    { [i \in 1..Len(f) |-> Entry(i, f[i])] :
        f \in { g \in UNION { [1..n -> 0..MaxOpsCol] : n \in 0..MaxOpsLen } :
                 \A i \in 1..(Len(g) - 1) : g[i] <= g[i + 1] } }

\* the bounds start..end and start.. of HalfOpen
OpsStarts == 0..MaxOpsCol
OpsEnds == {NoEnd} \cup (0..(MaxOpsCol + 1))

\* the generator is not used while an operation is run on its own
Unused ==
    /\ columns = << Entry(1, 0) >>
    /\ min_index = 0
    /\ config = DefaultConfig
    /\ keys = [v \in Vertices |-> 0]
    /\ nv = 1
    /\ ret = "none"
    /\ rows = << >>
    /\ log = << >>
    /\ drawn = [v \in Vertices |-> 0]
    /\ consumed = [v \in Vertices |-> 0]
    /\ nfail = 0
    /\ nrep = 0
    /\ last = NoCall

\* a new DiagramWriter and a slice of columns
InitOps ==
    /\ Unused
    /\ \E cols \in OpsFrontiers :
         w = [NoOp EXCEPT !.before = NewWriter(cols, NoFail),
                          !.st = NewWriter(cols, NoFail)]

\* ops::align(writer, cols, start..end)
OpAlign(start, end) ==
    /\ w.op = "none"
    /\ w' = [w EXCEPT !.op = "align", !.start = start, !.end = end,
                      !.st = align(w.st, start, end)]
    /\ UNCHANGED << columns, min_index, config, keys, nv, ret, rows, log,
                    drawn, consumed, nfail, nrep, last >>

\* ops::fork_align::<FORK>(writer, cols, min_index, start..end)
OpForkAlign(FORK, idx, start, end) ==
    /\ w.op = "none"
    /\ idx \in 0..(Len(w.st.cols) - 1)
    /\ w' = [w EXCEPT !.op = "fork_align", !.FORK = FORK, !.idx = idx,
                      !.start = start, !.end = end,
                      !.st = fork_align(w.st, FORK, idx, start, end)]
    /\ UNCHANGED << columns, min_index, config, keys, nv, ret, rows, log,
                    drawn, consumed, nfail, nrep, last >>

\* ops::fork_exact::<FORK>(writer, cols, min_index, offset..end), which
\* fork_align calls on the block of the target: a slice of at least two
\* entries that share one column
OpForkExact(FORK, idx, offset, end) ==
    /\ w.op = "none"
    /\ Len(w.st.cols) >= 2
    /\ \A i \in 1..Len(w.st.cols) : w.st.cols[i].c = w.st.cols[1].c
    /\ idx \in 0..(Len(w.st.cols) - 1)
    /\ w' = [w EXCEPT !.op = "fork_exact", !.FORK = FORK, !.idx = idx,
                      !.start = offset, !.end = end,
                      !.st = fork_exact(w.st, FORK, idx, offset, end)]
    /\ UNCHANGED << columns, min_index, config, keys, nv, ret, rows, log,
                    drawn, consumed, nfail, nrep, last >>

NextOps ==
    \/ \E start \in OpsStarts, end \in OpsEnds : OpAlign(start, end)
    \/ \E FORK \in BOOLEAN, idx \in 0..(MaxOpsLen - 1),
          start \in OpsStarts, end \in OpsEnds :
            OpForkAlign(FORK, idx, start, end)
    \/ \E FORK \in BOOLEAN, idx \in 0..(MaxOpsLen - 1),
          offset \in OpsStarts, end \in OpsEnds :
            OpForkExact(FORK, idx, offset, end)

\* one operation of layout/ops on one line of a new writer
SpecOps == InitOps /\ [][NextOps]_vars

\* ------------------------------------- fork_align rows, one after another
\* a slice, a target in it and an end bound, before the first row
InitRows ==
    /\ Unused
    /\ \E cols \in OpsFrontiers, end \in OpsEnds :
         \E idx \in 0..(Len(cols) - 1) :
            w = [NoOp EXCEPT !.op = "rows", !.idx = idx, !.end = end,
                             !.before = NewWriter(cols, NoFail),
                             !.st = NewWriter(cols, NoFail)]

\* one more row is due: the target still shares its column and the writer
\* has not failed
RowDue ==
    /\ w.op = "rows"
    /\ ~Halted(w.st)
    /\ ~is_singleton(w.st.cols, w.idx)

\* Generator::try_make_singleton(idx, writer, diagram_width): a row of
\* fork_align::<true> with the bounds ..diagram_width, as make_singleton
\* writes them while the target is not alone in its column
ForkRow ==
    /\ RowDue
    /\ w.n < MaxOpsRows
    /\ w' = [w EXCEPT !.FORK = TRUE, !.n = @ + 1, !.nfork = @ + 1,
                      !.before = w.st,
                      !.st = try_make_singleton(w.st, w.idx, w.end)]
    /\ UNCHANGED << columns, min_index, config, keys, nv, ret, rows, log,
                    drawn, consumed, nfail, nrep, last >>

\* a row of fork_align::<false> with the same bounds, as the rows of the
\* annotation lines before the last one are written
PrepareRow ==
    /\ RowDue
    /\ w.n < MaxOpsRows
    /\ w' = [w EXCEPT !.FORK = FALSE, !.n = @ + 1, !.before = w.st,
                      !.st = write_newline(fork_align(w.st, FALSE, w.idx, 0,
                                                      w.end))]
    /\ UNCHANGED << columns, min_index, config, keys, nv, ret, rows, log,
                    drawn, consumed, nfail, nrep, last >>

NextRows == ForkRow \/ PrepareRow

\* up to MaxOpsRows rows of fork_align on one slice with one target and one
\* end bound
SpecRows == InitRows /\ [][NextRows]_vars

\* ------------------------------------------------ make_singleton alone
\* Generator::make_singleton(idx, writer, diagram_width) on a frontier whose
\* required width the diagram width covers, as compute_diagram_width
\* provides
InitMakeSingleton ==
    /\ InitRows
    /\ w.end # NoEnd
    /\ w.end >= required_width(w.st.cols, w.idx)

\* the loop of make_singleton: while !is_singleton(idx), one more row
SpecMakeSingleton == InitMakeSingleton /\ [][ForkRow]_vars

\* ---------------------------------------- the DiagramWriter on its own
\* a new DiagramWriter: nothing written, nothing queued
InitWriter ==
    /\ Unused
    /\ w = NoOp

\* DiagramWriter::queue_blank(n)
OpQueueBlank(n) ==
    /\ w.st.rows = << >>
    /\ w.st.queued + n <= MaxQueued
    /\ w' = [w EXCEPT !.op = "queue_blank", !.n = n, !.before = w.st,
                      !.st = queue_blank(w.st, n)]
    /\ UNCHANGED << columns, min_index, config, keys, nv, ret, rows, log,
                    drawn, consumed, nfail, nrep, last >>

\* DiagramWriter::write_branch(Branch::Continue) and
\* write_branch(Branch::Blank(a))
OpWriteBranch(kind, a) ==
    /\ w.st.rows = << >>
    /\ Len(w.st.line) < MaxLineItems
    /\ w' = [w EXCEPT !.op = "write_branch", !.n = 0, !.before = w.st,
                      !.st = write_branch(w.st, kind, a, 0)]
    /\ UNCHANGED << columns, min_index, config, keys, nv, ret, rows, log,
                    drawn, consumed, nfail, nrep, last >>

\* DiagramWriter::write_newline()
OpWriteNewline ==
    /\ w.st.rows = << >>
    /\ w' = [w EXCEPT !.op = "write_newline", !.n = 0, !.before = w.st,
                      !.st = write_newline(w.st)]
    /\ UNCHANGED << columns, min_index, config, keys, nv, ret, rows, log,
                    drawn, consumed, nfail, nrep, last >>

\* DiagramWriter::write_annotation_line(line, bound, padding)
OpWriteAnnotationLine(bound) ==
    /\ w.st.rows = << >>
    /\ w' = [w EXCEPT !.op = "write_annotation_line", !.n = 0,
                      !.before = w.st,
                      !.st = write_annotation_line(w.st, 1, bound)]
    /\ UNCHANGED << columns, min_index, config, keys, nv, ret, rows, log,
                    drawn, consumed, nfail, nrep, last >>

\* the first branch of the line that follows a finished row
OpNextLine(kind, a) ==
    /\ w.st.rows # << >>
    /\ w.st.line = << >>
    /\ w' = [w EXCEPT !.op = "next_line", !.n = 0, !.before = w.st,
                      !.st = write_branch(w.st, kind, a, 0)]
    /\ UNCHANGED << columns, min_index, config, keys, nv, ret, rows, log,
                    drawn, consumed, nfail, nrep, last >>

NextWriter ==
    \/ \E n \in 1..MaxQueued : OpQueueBlank(n)
    \/ \E a \in 0..1 : OpWriteBranch("Blank", a)
    \/ OpWriteBranch("Continue", 0)
    \/ OpWriteNewline
    \/ \E bound \in 0..MaxBound : OpWriteAnnotationLine(bound)
    \/ \E a \in 0..1 : OpNextLine("Blank", a)
    \/ OpNextLine("Continue", 0)

\* the calls made on one DiagramWriter, up to the first branch of its
\* second line
SpecWriter == InitWriter /\ [][NextWriter]_vars

\* Generator::is_empty
is_empty == columns = << >>

\* ------------------------------------------------------------ properties
\* the indices of a frontier
Indices(cols) == 0..(Len(cols) - 1)

\* the least index among the entries whose vertex has the minimal key
FirstMin(cols, ks) ==
    CHOOSE i \in Indices(cols) :
        /\ \A j \in Indices(cols) : ks[Vtx(cols, i)] <= ks[Vtx(cols, j)]
        /\ \A j \in Indices(cols) : j < i => ks[Vtx(cols, j)] > ks[Vtx(cols, i)]

\* a step that is a call of (try_)write_next_vertex on a non-empty frontier
IsCall == consumed' # consumed

\* the vertices of a frontier, in order
VtxSeq(cols) == [i \in 1..Len(cols) |-> cols[i].v]

\* the primitives of all rows a call wrote
RowItems(rs) ==
    UNION { { rs[i].items[j] : j \in 1..Len(rs[i].items) } : i \in 1..Len(rs) }

\* the positions of the log at which callback f was invoked
LogAt(f) == { k \in 1..Len(log) : log[k].f = f }

\* C1: with an infallible ramifier on a finite tree the calls terminate: no
\* vertex has its marker row written twice, a call eventually returns false,
\* and when a call has returned false every vertex created by the tree
\* (1..nv) has had its marker row written exactly once.
C1_TerminatesAllDrawnOnce ==
    /\ [](\A v \in Vertices : drawn[v] <= 1)
    /\ [](ret = "false" => \A v \in 1..nv : drawn[v] = 1)
    /\ <>(ret = "false")

\* a run of a tree with MaxVertices vertices has ended, every marker written
C1_Witness ==
    /\ ret = "false"
    /\ last.op = "ok"
    /\ nv = MaxVertices
    /\ \A v \in 1..nv : drawn[v] = 1

\* C2: a call on a non-empty frontier takes the entry at the stored minimal
\* index, and that index is the least index among the entries of minimal
\* key; the call consumes that vertex, and when try_children succeeds it
\* writes the marker of that vertex once and no other marker.
C2_DrawsFirstMinimalKey ==
    [][IsCall =>
        /\ min_index = FirstMin(columns, keys)
        /\ last'.vtx = Vtx(columns, FirstMin(columns, keys))
        /\ consumed' = [consumed EXCEPT ![last'.vtx] = @ + 1]
        /\ last'.op = "ok" =>
              drawn' = [drawn EXCEPT ![last'.vtx] = @ + 1]]_vars

\* the vertex selected for the next call is a child whose key is smaller
\* than the key of its parent, which was just drawn, and a later entry of the
\* frontier has the same key
C2_Witness ==
    /\ last.op = "ok"
    /\ ret = "true"
    /\ last.l <= min_index /\ min_index < last.r
    /\ keys[Vtx(columns, min_index)] < last.key
    /\ \E j \in Indices(columns) :
          /\ j > min_index
          /\ keys[Vtx(columns, j)] = keys[Vtx(columns, min_index)]
    /\ \E j \in Indices(columns) :
          /\ j < min_index
          /\ keys[Vtx(columns, j)] > keys[Vtx(columns, min_index)]

\* C3: the frontier is sorted non-decreasing by column in every state, and
\* it was sorted after the substitution (or the restore) of the last call
\* and after every row that call wrote.
C3_FrontierSorted == Sorted(columns) /\ last.sorted

\* a failed call restored an entry of a frontier of three and wrote two rows
\* that moved entries
C3_Witness ==
    /\ last.op = "err"
    /\ Len(columns) >= 3
    /\ Len(rows) >= 2
    /\ Col(columns, Len(columns) - 1) >= 2

\* C4: when a call on a non-empty frontier is about to start (initially,
\* after Ok(true), after TryChildrenFailed), no other entry of the frontier
\* has the column of the entry at the stored minimal index.
C4_MinIndexSingleton ==
    (ret \in {"none", "true", "failed"} /\ min_index # NoIndex) =>
        \A j \in Indices(columns) :
            j # min_index => Col(columns, j) # Col(columns, min_index)

\* the next vertex was strictly inside a block of at least three children
\* and the call returned Ok(true)
C4_Witness ==
    /\ ret = "true"
    /\ last.op = "ok"
    /\ last.l < min_index /\ min_index + 1 < last.r
    /\ Len(rows) >= 2

C6_TerminalCallChangesNothing ==
    [][(is_empty /\ config' = config) =>
        /\ ret' = "false"
        /\ rows' = << >>
        /\ log' = << >>
        /\ UNCHANGED << columns, min_index, config, keys, nv, drawn,
                        consumed >>]_vars

\* a call was made on the empty frontier a run of three vertices left
C6_Witness ==
    /\ last.op = "terminal"
    /\ is_empty
    /\ ret = "false"
    /\ nv >= 3

\* C7: a call whose try_children succeeds with n children replaces entry i
\* of the frontier by the n children, in order and in the column of entry i:
\* the substitution gives prefix ++ children ++ suffix with every other entry
\* unchanged, the reported block is [i, i + n), and the rows of the call keep
\* the vertices of the frontier in that order.
C7_SubstitutionInPlace ==
    [][(IsCall /\ last'.op = "ok") =>
        LET i == min_index
            n == nv' - nv
            kids == [j \in 1..n |-> nv + j]
            expected == Slice(columns, 0, i)
                        \o [j \in 1..n |-> Entry(nv + j, Col(columns, i))]
                        \o Slice(columns, i + 1, Len(columns))
        IN /\ substitute_ok(columns, i, kids) = expected
           /\ last'.l = i
           /\ last'.r = i + n
           /\ VtxSeq(columns') = VtxSeq(expected)]_vars

\* two or more children were substituted for an entry that had entries on
\* both sides
C7_Witness ==
    /\ last.op = "ok"
    /\ last.l >= 1
    /\ last.r - last.l >= 2
    /\ last.r < Len(columns)
    /\ VtxSeq(Slice(columns, last.l, last.r))
         = [j \in 1..(last.r - last.l) |-> nv - (last.r - last.l) + j]

\* C8: with an infallible ramifier, children is never invoked twice on a
\* vertex, it has been invoked once on every vertex of the tree when a call
\* has returned false, it is the last callback of its call that names the
\* vertex, and no callback of a later call names a vertex whose children
\* were taken before that call.
C8_ChildrenOnceAndLast ==
    /\ [](\A v \in Vertices : consumed[v] <= 1)
    /\ [](ret = "false" => \A v \in 1..nv : consumed[v] = 1)
    /\ [](\A k \in LogAt("try_children") :
            \A m \in (k + 1)..Len(log) : log[m].v # log[k].v)
    /\ [][IsCall => \A k \in 1..Len(log') : consumed[log'[k].v] = 0]_vars

\* a complete run over a tree of MaxVertices vertices: the children of every
\* vertex were taken, the last call made callbacks
C8_Witness ==
    /\ ret = "false"
    /\ nv = MaxVertices
    /\ \A v \in 1..nv : consumed[v] = 1
    /\ LogAt("try_children") # {}

\* C9: a call on a non-empty frontier invokes marker once and annotation
\* once, both on the vertex it takes and both before the try_children call
\* on that vertex, and every callback on another vertex is get_key.
C9_MarkerAnnotationOnce ==
    last.op \in {"ok", "err"} =>
        /\ Cardinality(LogAt("marker")) = 1
        /\ Cardinality(LogAt("annotation")) = 1
        /\ Cardinality(LogAt("try_children")) = 1
        /\ \A k \in LogAt("marker") \cup LogAt("annotation") :
              /\ log[k].v = last.vtx
              /\ \E m \in LogAt("try_children") :
                    m > k /\ log[m].v = last.vtx
        /\ \A k \in 1..Len(log) :
              log[k].v # last.vtx => log[k].f = "get_key"

\* a call took a vertex with children while other vertices were active
C9_Witness ==
    /\ last.op = "ok"
    /\ last.r - last.l >= 2
    /\ Len(columns) > last.r - last.l
    /\ Cardinality(LogAt("get_key")) = Len(columns)

\* the replacement that a failed call put back: a new vertex, or the vertex
\* itself
Replacement == IF nv' > nv THEN nv' ELSE Vtx(columns, min_index)

\* the rows of a failed call hold no marker and no annotation line
NoMarkerNoAnnotation(rs) ==
    /\ \A it \in RowItems(rs) : it.k # "Marker"
    /\ \A i \in 1..Len(rs) : rs[i].ann = 0

\* C10 as stated: after the failed call the replacement is at the index and
\* in the column of the original entry.
C10_Original ==
    [][(IsCall /\ last'.op = "err") =>
        /\ ret' = "failed"
        /\ Len(columns') = Len(columns)
        /\ columns'[min_index + 1]
             = Entry(Replacement, Col(columns, min_index))
        /\ \A j \in Indices(columns) :
              j # min_index => Vtx(columns', j) = Vtx(columns, j)
        /\ NoMarkerNoAnnotation(rows')
        /\ drawn' = drawn]_vars

\* C10: a failed call returns TryChildrenFailed; the restore puts the
\* replacement at the index and in the column of the original entry and
\* changes no other entry; the rows of the call hold no marker and no
\* annotation line and keep the length and the vertices of the frontier, and
\* a call that writes no row leaves the restored frontier as it is (the
\* preparation rows may move the columns of entries, the replacement
\* included).
C10_FailureRestoresEntry ==
    [][(IsCall /\ last'.op = "err") =>
        LET restored == substitute_err(columns, min_index, Replacement)
        IN /\ ret' = "failed"
           /\ restored = [columns EXCEPT ![min_index + 1] =
                             Entry(Replacement, Col(columns, min_index))]
           /\ Len(columns') = Len(columns)
           /\ VtxSeq(columns') = VtxSeq(restored)
           /\ rows' = << >> => columns' = restored
           /\ NoMarkerNoAnnotation(rows')
           /\ drawn' = drawn]_vars

\* a failed call put back a new vertex and its preparation rows moved the
\* replacement to another column
C10_Witness ==
    /\ last.op = "err"
    /\ ret = "failed"
    /\ Vtx(columns, last.l) # last.vtx
    /\ Len(rows) >= 1
    /\ Col(columns, last.l) # last.col

\* C11: when try_children fails and hands back the vertex it was given, the
\* call writes no row and leaves the frontier (vertices, columns, order) and
\* the stored minimal index as they were before the call.
C11_SameVertexFailureChangesNothing ==
    [][(IsCall /\ last'.op = "err" /\ Replacement = Vtx(columns, min_index)) =>
        /\ ret' = "failed"
        /\ rows' = << >>
        /\ columns' = columns
        /\ min_index' = min_index]_vars

\* a call failed with the vertex it was given, on a frontier of several
\* entries with a minimal entry in the middle and with padding rows configured
C11_Witness ==
    /\ last.op = "err"
    /\ ret = "failed"
    /\ Vtx(columns, last.l) = last.vtx
    /\ Len(columns) >= 3
    /\ last.l >= 1
    /\ last.l + 1 < Len(columns)
    /\ config.row_padding >= 1

\* the rows and the frontier that a successful call with children of keys ks
\* and an annotation of L lines produces from the frontier cols, the minimal
\* index idx, the keys kys and the configuration cfg
SuccessFrom(cols, idx, kys, cfg, first, ks, L) ==
    LET kids == [j \in 1..Len(ks) |-> first + j]
        new_keys == [v \in Vertices |->
                       IF v > first /\ v <= first + Len(ks)
                       THEN ks[v - first] ELSE kys[v]]
        new_cols == substitute_ok(cols, idx, kids)
        st == WriteRows(new_cols, Vtx(cols, idx), Col(cols, idx), idx,
                        idx + Len(ks), compute_min_idx(new_cols, new_keys),
                        cfg, L, NoFail)
    IN << st.rows, st.cols >>

\* C12: a call in which try_children fails with the vertex it was given
\* writes nothing and leaves everything the later output depends on as it
\* was (frontier, minimal index, keys, configuration, vertices created), so
\* that the call that succeeds after any number of such failures writes the
\* rows, and leaves the frontier, that it would have on the first attempt.
C12_RetryIsIdempotent ==
    [][(IsCall /\ last'.op = "err") =>
        /\ rows' = << >>
        /\ << columns, min_index, keys, config, nv >>' =
             << columns, min_index, keys, config, nv >>
        /\ \A n \in 0..MaxKids : \A L \in {0, MaxLines} :
              \A ks \in [1..n -> Keys] :
                 Room(n, MaxVertices) =>
                    SuccessFrom(columns', min_index', keys', config', nv', ks, L)
                    = SuccessFrom(columns, min_index, keys, config, nv, ks, L)]_vars

\* try_children failed several times in a row for a vertex in the middle of
\* the frontier and then succeeded, and the call that succeeded wrote rows
C12_Witness ==
    /\ last.op = "ok"
    /\ consumed[last.vtx] = MaxRetries + 1
    /\ last.l >= 1
    /\ last.r < Len(columns)
    /\ Len(rows) >= 2

\* the stored minimal index is the one compute_min_idx finds, and its entry
\* is alone in its column
MinIndexValid ==
    /\ min_index = compute_min_idx(columns, keys)
    /\ min_index # NoIndex => is_singleton(columns, min_index)

\* C13 as stated: after a call that returned an I/O error the generator
\* satisfies the invariants that hold between successful calls: the frontier
\* is sorted, the stored minimal index is valid and its entry is a singleton
\* column block.
C13_Original ==
    ret = "io" => Sorted(columns) /\ MinIndexValid

\* the number of distinct column blocks of a frontier
Blocks(cols) == Cardinality({ Col(cols, i) : i \in Indices(cols) })

\* the indices of the column block that holds index t
BlockOf(cols, t) == { j \in Indices(cols) : Col(cols, j) = Col(cols, t) }

\* t is the first or the last index of its block
AtBoundary(cols, t) ==
    \/ \A j \in BlockOf(cols, t) : t <= j
    \/ \A j \in BlockOf(cols, t) : j <= t

\* C14: required_width(frontier, target) is the number of distinct column
\* blocks plus 0 when the target's block is a singleton, 1 when the target is
\* the first or the last entry of a larger block, 2 when it is strictly
\* inside its block.
C14_RequiredWidth ==
    \A t \in Indices(columns) :
        required_width(columns, t)
          = Blocks(columns)
            + (IF Cardinality(BlockOf(columns, t)) = 1 THEN 0
               ELSE IF AtBoundary(columns, t) THEN 1 ELSE 2)

\* a frontier of two blocks, one of them with an entry strictly inside it
C14_Witness ==
    /\ Blocks(columns) >= 2
    /\ \E t \in Indices(columns) : ~AtBoundary(columns, t)
    /\ last.op = "ok"

\* the extra fork space required_width adds for target t
ExtraSpace(cols, t) == required_width(cols, t) - Blocks(cols)

\* C15 as stated: the extra fork space is 0, 1, 2 for a target whose column
\* block has size 1, 2, 3, wherever the target is in its block.
C15_Original ==
    \A t \in Indices(columns) :
        LET size == Cardinality(BlockOf(columns, t))
        IN size \in 1..3 => ExtraSpace(columns, t) = size - 1

\* C15: the extra fork space is 0 for a block of size 1 and 1 for a block of
\* size 2; for a block of size 3 it is 2 only for the middle entry and 1 for
\* the first and the last entry.
C15_ExtraByBlockSize ==
    \A t \in Indices(columns) :
        LET size == Cardinality(BlockOf(columns, t))
        IN /\ size = 1 => ExtraSpace(columns, t) = 0
           /\ size = 2 => ExtraSpace(columns, t) = 1
           /\ size = 3 => ExtraSpace(columns, t)
                            = (IF AtBoundary(columns, t) THEN 1 ELSE 2)

\* a frontier with blocks of size 1, 2 and 3 has been seen: here one of
\* size 3 next to one of another size
C15_Witness ==
    /\ \E t \in Indices(columns) : Cardinality(BlockOf(columns, t)) = 3
    /\ \E t \in Indices(columns) : Cardinality(BlockOf(columns, t)) = 1
    /\ ret = "true"

\* the marker char of vertex v: the vertices 1, 2, ... are labelled
\* '0', '1', ...
VertexChar(v) == << "0", "1", "2", "3", "4", "5", "6", "7" >>[v]

\* n copies of glyph g
Repeat(g, n) == [i \in 1..n |-> g]

\* the chars a primitive is written with in the style RoundedCorners, named
\* as the charset of branch_writer names them (ns is the vertical bar, ew
\* the horizontal bar, sw se nw ne the four corners, nsw nse sew the three
\* tees, nsew the cross); sp is a blank
Glyphs(item) ==
    CASE item.k = "Blank" -> Repeat("sp", item.a)
      [] item.k = "Continue" -> << "ns" >>
      [] item.k = "Marker" -> << VertexChar(item.a) >>
      [] item.k = "shift_left" ->
           IF item.a = 0 THEN << "ns" >>
           ELSE << "se" >> \o Repeat("ew", item.a - 1) \o << "nw" >>
      [] item.k = "shift_right" ->
           IF item.a = 0 THEN << "ns" >>
           ELSE << "ne" >> \o Repeat("ew", item.a - 1) \o << "sw" >>
      [] item.k = "ForkLeft" ->
           << "se" >> \o Repeat("sew", item.a) \o << "nsw" >>
      [] item.k = "ForkRight" ->
           << "nse" >> \o Repeat("sew", item.a) \o << "sw" >>
      [] item.k = "ShiftForkLeft" ->
           << "se" >> \o Repeat("sew", item.b) \o Repeat("ew", item.a)
             \o << "nw" >>
      [] item.k = "ShiftForkRight" ->
           << "ne" >> \o Repeat("ew", item.a) \o Repeat("sew", item.b)
             \o << "sw" >>
      [] item.k = "fork" ->
           (IF item.a = 0 THEN << "nse" >>
            ELSE << "se" >> \o Repeat("sew", item.a - 1)
                   \o << IF item.b = 0 THEN "nsw" ELSE "nsew" >>)
           \o (IF item.b = 0 THEN << >>
               ELSE Repeat("sew", item.b - 1) \o << "sw" >>)

\* the chars of the diagram part of one line: every primitive behind the
\* blanks that were queued in front of it
RECURSIVE RenderLine(_)
RenderLine(line) ==
    IF line = << >> THEN << >>
    ELSE RenderLine(SubSeq(line, 1, Len(line) - 1))
         \o Repeat("sp", line[Len(line)].ws) \o Glyphs(line[Len(line)])

\* the diagram parts of the rows a call wrote
Render(rs) == [i \in 1..Len(rs) |-> RenderLine(rs[i].items)]

\* a call that draws vertex v with n children and no annotation under
\* row_padding 0, from the frontier from, with the infallible ramifier
GoldenCall(v, n, from) ==
    /\ IsCall
    /\ last'.op = "ok"
    /\ last'.vtx = v
    /\ last'.L = 0
    /\ nv' = nv + n
    /\ columns = from
    /\ nfail = 0
    /\ config.row_padding = 0

\* the calls of the scenario: root 1 ('0') with the three leaves 2, 3, 4
\* ('1', '2', '3'), of which the first is the minimal one, and the rows
\* each call writes when the second row is the one given by top
GoldenRows(top) ==
    /\ GoldenCall(1, 3, << Entry(1, 0) >>) /\ min_index' = 0
         => /\ Render(rows') = << << "0" >>, top >>
            /\ columns' = << Entry(2, 0), Entry(3, 1), Entry(4, 1) >>
    /\ GoldenCall(2, 0, << Entry(2, 0), Entry(3, 1), Entry(4, 1) >>)
         /\ min_index' = 0
         => /\ Render(rows') = << << "1", "ns" >>, << "se", "nsw" >> >>
            /\ columns' = << Entry(3, 0), Entry(4, 1) >>
    /\ GoldenCall(3, 0, << Entry(3, 0), Entry(4, 1) >>)
         => /\ Render(rows') = << << "2", "ns" >> >>
            /\ columns' = << Entry(4, 1) >>
    /\ GoldenCall(4, 0, << Entry(4, 1) >>)
         => /\ Render(rows') = << << "sp", "3" >> >>
            /\ columns' = << >>

\* C16 as stated: the scenario produces six rows, the second of which is the
\* three-way fork nse sew sw.
C16_Original == [][GoldenRows(<< "nse", "sew", "sw" >>)]_vars

\* C16: root 0 with the leaf children 1, 2, 3 iterated in that order,
\* rounded corners, row_padding 0, no annotations, produces six rows: '0',
\* the two-way fork nse sw, '1' ns, se nsw, '2' ns, blank '3'.
C16_GoldenScenario == [][GoldenRows(<< "nse", "sw" >>)]_vars

\* the scenario has been played to its end: the last leaf is drawn after
\* its two siblings and the tree has no other vertex
C16_Witness ==
    /\ last.op = "ok" /\ last.vtx = 4 /\ last.L = 0
    /\ ret = "false" /\ nv = 4 /\ nfail = 0
    /\ consumed = [v \in Vertices |-> IF v <= 4 THEN 1 ELSE 0]
    /\ Render(rows) = << << "sp", "3" >> >>

\* row i of rs holds a vertex marker
HasMarker(rs, i) == \E j \in 1..Len(rs[i].items) : rs[i].items[j].k = "Marker"

\* a step that is a call whose try_children returned Ok, on a writer that
\* did not fail, ending with the result res
OkCall(res) == IsCall /\ last'.op = "ok" /\ ret' = res

\* C17: a successful call that does not draw the last vertex, for an
\* annotation of L lines under row_padding p, writes the marker row first
\* (it carries line 1 when L >= 1), then L - 1 rows with the lines 2..L in
\* order, then at least p rows without annotation; no later row holds a
\* marker, and the call writes at least max(1, L) + p rows.
C17_RowsOfCall ==
    [][OkCall("true") =>
        LET rs == rows'
            L == last'.L
            p == config.row_padding
        IN /\ Len(rs) >= Max(1, L) + p
           /\ MarkerCount(<< rs[1] >>, last'.vtx) = 1
           /\ rs[1].ann = (IF L >= 1 THEN 1 ELSE 0)
           /\ \A i \in 2..Len(rs) :
                /\ ~HasMarker(rs, i)
                /\ rs[i].ann = (IF i <= L THEN i ELSE 0)]_vars

\* a call that drew a vertex with several children and the longest
\* annotation under the largest padding, and wrote one row per line and per
\* padding row
C17_Witness ==
    /\ last.op = "ok" /\ ret = "true"
    /\ last.L = MaxLines
    /\ config.row_padding = MaxPadding
    /\ last.r - last.l >= 2
    /\ Len(rows) = MaxLines + MaxPadding

\* C18 as stated: under row_padding 0 a call that draws a vertex with an
\* annotation of exactly 2 lines writes exactly one row after its marker
\* row, so that one non-marker row stands before the next marker row.
C18_Original ==
    [][OkCall("true") /\ last'.L = 2 /\ config.row_padding = 0
         => Len(rows') = 2]_vars

\* C18: under row_padding 0 a call that draws a vertex with an annotation
\* of exactly 2 lines writes at least one row after its marker row: the row
\* with the second line, and after it the rows without annotation that are
\* still needed to make the next vertex alone in its column.
C18_TwoLineAnnotation ==
    [][OkCall("true") /\ last'.L = 2 /\ config.row_padding = 0
         => /\ Len(rows') >= 2
            /\ rows'[1].ann = 1 /\ rows'[2].ann = 2
            /\ \A i \in 2..Len(rows') : ~HasMarker(rows', i)
            /\ \A i \in 3..Len(rows') : rows'[i].ann = 0
            /\ is_singleton(columns', min_index')]_vars

\* a 2-line annotation under row_padding 0 was followed by a further row
C18_Witness ==
    /\ last.op = "ok" /\ ret = "true"
    /\ last.L = 2
    /\ config.row_padding = 0
    /\ Len(rows) >= 3

\* the chars of the diagram part of a finished row
RowChars(row) == line_char_count([line |-> row.items])

\* the char column at which the annotation line of a row starts, before
\* the annotation margin: write_annotation_line pads the diagram part up to
\* the bound, and not at all when it is already wider
AnnotationStart(row) == Max(row.bound, RowChars(row))

\* the diagram width of the call that has just been made: the one computed
\* for the frontier with the children spliced in, or for the marker of the
\* last vertex
CallDiagramWidth ==
    IF min_index' = NoIndex
    THEN compute_diagram_width(config, last'.col + 1)
    ELSE compute_diagram_width_no_base(
            config,
            substitute_ok(columns, min_index,
                          [j \in 1..(nv' - nv) |-> nv + j]),
            min_index')

\* C19: within one call every annotation line starts at the same char
\* column: the alignment is chosen on the marker row as the larger of
\* (G + 1) * dw - G and the chars of the marker row, every annotation row
\* is written with that alignment, and the diagram part of no annotation
\* row is wider than it.
C19_AnnotationAligned ==
    [][IsCall /\ last'.op = "ok" /\ ret' \in {"true", "false"}
         /\ last'.L >= 1 =>
        LET rs == rows'
            alignment ==
                Max((GUTTER_WIDTH + 1) * CallDiagramWidth - GUTTER_WIDTH,
                    RowChars(rs[1]))
        IN \A i \in 1..Len(rs) :
             rs[i].ann >= 1 =>
               /\ rs[i].bound = alignment
               /\ RowChars(rs[i]) <= alignment
               /\ AnnotationStart(rs[i]) = AnnotationStart(rs[1])]_vars

\* an annotation of several lines whose later rows hold a fork and are as
\* wide as the alignment allows, wider than the marker row
C19_Witness ==
    /\ last.op = "ok" /\ ret = "true"
    /\ last.L >= 2
    /\ \E i \in 2..Len(rows) :
         /\ rows[i].ann >= 2
         /\ RowChars(rows[i]) = rows[1].bound
         /\ RowChars(rows[i]) > RowChars(rows[1])
         /\ \E j \in 1..Len(rows[i].items) :
              rows[i].items[j].k \in {"ForkLeft", "ForkRight", "fork"}

\* C20: the call that draws the last vertex writes exactly max(1, L) rows,
\* whatever row_padding is: the marker row, with nothing but blanks in
\* front of the marker standing in the vertex's column, carrying line 1
\* when L >= 1, then one row per remaining line with no diagram part and
\* the alignment of the first; no padding row and no structural row.
C20_LastVertexRows ==
    [][OkCall("false") =>
        LET rs == rows'
            L == last'.L
        IN /\ Len(rs) = Max(1, L)
           /\ RenderLine(rs[1].items)
                = Repeat("sp", last'.col) \o << VertexChar(last'.vtx) >>
           /\ rs[1].ann = (IF L >= 1 THEN 1 ELSE 0)
           /\ \A i \in 2..Len(rs) :
                /\ rs[i].ann = i
                /\ rs[i].items = << >>
                /\ rs[i].bound = rs[1].bound]_vars

\* the last vertex was drawn right of column 0 with the longest annotation
\* under the largest padding
C20_Witness ==
    /\ last.op = "ok" /\ ret = "false"
    /\ last.L = MaxLines
    /\ last.col >= 1
    /\ config.row_padding = MaxPadding
    /\ Len(rows) = MaxLines

\* C21: no annotation line begins earlier than min_diagram_width implies:
\* the alignment of every annotation line a call writes is at least
\* (G + 1) * min_diagram_width - G, for the last vertex as for the others.
C21_MinDiagramWidth ==
    [][IsCall /\ last'.op = "ok" /\ ret' \in {"true", "false"} =>
        \A i \in 1..Len(rows') :
          rows'[i].ann >= 1 =>
            /\ rows'[i].bound
                 >= (GUTTER_WIDTH + 1) * config.min_diagram_width - GUTTER_WIDTH
            /\ AnnotationStart(rows'[i])
                 >= (GUTTER_WIDTH + 1) * config.min_diagram_width
                      - GUTTER_WIDTH]_vars

\* the last vertex was drawn with an annotation whose alignment is the one
\* min_diagram_width asks for, right of the marker
C21_Witness ==
    /\ last.op = "ok" /\ ret = "false"
    /\ last.L >= 2
    /\ config.min_diagram_width = MaxMinWidth
    /\ rows[2].bound = MaxMinWidth
    /\ RowChars(rows[1]) < MaxMinWidth

\* C22: whatever changes of the configuration are made between the calls,
\* every call ends without a panic and within MaxRows rows, the frontier is
\* sorted after the substitution and after every row, the minimal entry is
\* alone in its column whenever a call is about to start, no vertex has its
\* marker written twice, and when the frontier is exhausted every vertex
\* has been drawn exactly once.
C22_ConfigChangesAreSafe ==
    /\ ret \in {"none", "true", "false"}
    /\ Sorted(columns)
    /\ last.sorted
    /\ min_index = compute_min_idx(columns, keys)
    /\ min_index # NoIndex => is_singleton(columns, min_index)
    /\ \A v \in Vertices : drawn[v] <= 1 /\ drawn[v] = consumed[v]
    /\ ret = "false" => is_empty /\ \A v \in 1..nv : drawn[v] = 1

\* the configuration has been changed in the middle of a run: the last call
\* drew a vertex with several children and aligned its annotation left of
\* what min_diagram_width asks for now, and vertices are still to be drawn
C22_Witness ==
    /\ last.op = "ok" /\ ret = "true"
    /\ last.L >= 1
    /\ last.r - last.l >= 2
    /\ rows[1].bound < config.min_diagram_width
    /\ Len(columns) >= 2
    /\ \E v \in Vertices : v # last.vtx /\ drawn[v] = 1

\* a primitive that forks one edge into three
TripleFork(item) ==
    \/ item.k = "fork"
    \/ item.k \in {"ForkLeft", "ForkRight"} /\ item.a >= 1
    \/ item.k \in {"ShiftForkLeft", "ShiftForkRight"} /\ item.b >= 2

\* the frontier of the call that has just been made, with the children
\* spliced in and before any row
SplicedFrontier ==
    substitute_ok(columns, min_index, [j \in 1..(nv' - nv) |-> nv + j])

PrevBlockCol(cols, i) ==
    CHOOSE c \in { cols[j].c : j \in 1..Len(cols) } :
        /\ c < cols[i].c
        /\ \A j \in 1..Len(cols) : cols[j].c < cols[i].c => cols[j].c <= c

\* C26: align with lower bound 0 and no end bound on a sorted slice whose
\* blocks stand in the columns c0 < c1 < ... < ck moves block 0 to column 0
\* and block i >= 1 to column c(i-1) + 1, keeps the entries of a block
\* together and in order, and returns ck + 1; on an empty slice it writes
\* nothing, changes nothing and returns the lower bound, whatever it is.
C26_AlignCompacts ==
    w.op = "align" =>
        LET b == w.before.cols
            a == w.st.cols
        IN /\ (w.start = 0 /\ w.end = NoEnd) =>
                /\ ~Halted(w.st)
                /\ VtxSeq(a) = VtxSeq(b)
                /\ \A i \in 1..Len(b) :
                     a[i].c = (IF b[i].c = b[1].c THEN 0
                               ELSE PrevBlockCol(b, i) + 1)
                /\ \A i, j \in 1..Len(b) :
                     (b[i].c = b[j].c) <=> (a[i].c = a[j].c)
                /\ w.st.ret = (IF b = << >> THEN 0 ELSE b[Len(b)].c + 1)
           /\ b = << >> =>
                a = << >> /\ w.st.line = << >> /\ w.st.ret = w.start

\* align(..) has run on a slice of three blocks, none of which was where
\* it is moved to, one of them with several entries
C26_Witness ==
    /\ w.op = "align" /\ w.start = 0 /\ w.end = NoEnd
    /\ Blocks(w.before.cols) = 3
    /\ Len(w.before.cols) = 4
    /\ \A i \in 1..4 : w.st.cols[i].c < w.before.cols[i].c

\* entry i (1-based) of the slice was shifted to the right by the operation
ShiftedRight(i) == w.st.cols[i].c > w.before.cols[i].c

\* align never shifts an entry to or beyond the column the next distinct
\* block had
BelowNextBlock ==
    \A i, j \in 1..Len(w.before.cols) :
        (ShiftedRight(i) /\ w.before.cols[j].c > w.before.cols[i].c)
            => w.st.cols[i].c < w.before.cols[j].c

\* an end bound no block can meet is ignored: align does not fail and the
\* offset it returns exceeds the end bound
UnmetEndIgnored ==
    (w.end # NoEnd /\ \E i \in 1..Len(w.before.cols) :
                        w.before.cols[i].c >= w.end)
        => ~Halted(w.st) /\ w.st.ret > w.end

\* C27 as stated: when align shifts a block to the right it never places it
\* at or beyond the next distinct block's column and never at a column >=
\* the end bound (checked for the ranges start..end with start <= end); an
\* end bound that cannot be met is ignored and the returned offset then
\* exceeds it.
C27_Original ==
    w.op = "align" =>
        /\ BelowNextBlock
        /\ (w.end # NoEnd /\ w.start <= w.end) =>
             \A i \in 1..Len(w.before.cols) :
                 ShiftedRight(i) => w.st.cols[i].c < w.end
        /\ UnmetEndIgnored

\* C27: when align shifts a block to the right it never places it at or
\* beyond the next distinct block's column; it never places the last block
\* at a column >= the end bound, and no block at all when every block stood
\* left of the end bound; an end bound that cannot be met is ignored and
\* the returned offset then exceeds it.
C27_AlignShiftRightBounds ==
    w.op = "align" =>
        LET b == w.before.cols
        IN /\ BelowNextBlock
           /\ w.end # NoEnd =>
                \A i \in 1..Len(b) :
                    (/\ ShiftedRight(i)
                     /\ \/ b[i].c = b[Len(b)].c
                        \/ \A j \in 1..Len(b) : b[j].c < w.end)
                        => w.st.cols[i].c < w.end
           /\ UnmetEndIgnored

\* align has shifted the last block to the right up to the end bound and a
\* block before it up to the block that follows
C27_Witness ==
    /\ w.op = "align" /\ w.end # NoEnd
    /\ Len(w.before.cols) >= 3
    /\ ShiftedRight(Len(w.before.cols))
    /\ w.st.cols[Len(w.before.cols)].c = w.end - 1
    /\ ShiftedRight(1)
    /\ w.st.cols[1].c + 1 = w.before.cols[Len(w.before.cols)].c

\* the operation run on its own came back without a panic or write error
OpDone == w.op \in {"align", "fork_align"} /\ ~Halted(w.st)

\* i and j stand in the block of the target the operation was given
InTargetBlock(i, j) ==
    /\ w.before.cols[i].c = w.before.cols[w.idx + 1].c
    /\ w.before.cols[j].c = w.before.cols[w.idx + 1].c

\* the number of blocks of the entries that are outside the target's block
BlocksOutside(cols) ==
    Cardinality({ cols[i].c : i \in { j \in 1..Len(cols) :
                      w.before.cols[j].c # w.before.cols[w.idx + 1].c } })

\* C28: align and fork_align never reorder the entries and never merge
\* column blocks: entries in different columns before the row are in
\* different columns after it; entries sharing a column are separated only
\* by a fork (fork_align with FORK) and only inside the target's block; the
\* number of blocks never decreases and changes only in the target's block.
C28_NoReorderNoMerge ==
    OpDone =>
        LET b == w.before.cols
            a == w.st.cols
        IN /\ VtxSeq(a) = VtxSeq(b)
           /\ \A i \in 1..(Len(a) - 1) : a[i].c <= a[i + 1].c
           /\ \A i, j \in 1..Len(b) : b[i].c # b[j].c => a[i].c # a[j].c
           /\ \A i, j \in 1..Len(b) :
                (b[i].c = b[j].c /\ a[i].c # a[j].c) =>
                    /\ w.op = "fork_align"
                    /\ w.FORK
                    /\ InTargetBlock(i, j)
           /\ Blocks(a) >= Blocks(b)
           /\ w.op = "fork_align" => BlocksOutside(a) = BlocksOutside(b)

\* fork_align forked the target's block, which raised the number of blocks
\* of a full slice from two to three, and moved the first entry, which is
\* outside the target's block
C28_Witness ==
    /\ OpDone
    /\ w.op = "fork_align"
    /\ Blocks(w.before.cols) = 2
    /\ Blocks(w.st.cols) = 3
    /\ Len(w.before.cols) = MaxOpsLen
    /\ w.before.cols[1].c # w.before.cols[w.idx + 1].c
    /\ w.st.cols[1].c # w.before.cols[1].c

\* what an operation leaves behind that its caller can see: the primitives
\* written, the columns, the returned offset and whether it failed
Effect(st) ==
    [line |-> st.line, cols |-> st.cols, ret |-> st.ret,
     halted |-> Halted(st)]

\* C29: when the target's block is a singleton, fork_align with FORK,
\* fork_align without FORK and align, given the same slice and bounds,
\* write the same primitives, leave the same columns and return the same
\* offset.
C29_SingletonDelegatesToAlign ==
    (w.op = "fork_align" /\ is_singleton(w.before.cols, w.idx)) =>
        /\ Effect(w.st) = Effect(align(w.before, w.start, w.end))
        /\ Effect(w.st) =
             Effect(fork_align(w.before, ~w.FORK, w.idx, w.start, w.end))

\* fork_align ran on a singleton target that stands right of a block of two
\* entries: the block was shifted right and the target left
C29_Witness ==
    /\ w.op = "fork_align"
    /\ is_singleton(w.before.cols, w.idx)
    /\ ~Halted(w.st)
    /\ w.idx = 2
    /\ Len(w.before.cols) = MaxOpsLen
    /\ Blocks(w.before.cols) = 3
    /\ w.st.cols[w.idx + 1].c < w.before.cols[w.idx + 1].c
    /\ w.st.cols[1].c > w.before.cols[1].c

\* the chars that draw a branching: the three tees and the cross
ForkGlyphs == {"nsw", "nse", "sew", "nsew"}

\* the line holds a char that draws a branching
Branches(line) ==
    \E i \in 1..Len(RenderLine(line)) : RenderLine(line)[i] \in ForkGlyphs

\* C30: fork_align (and the fork_exact it runs on the target's block)
\* without FORK never branches: it writes no fork primitive, the entries of
\* the target's block are left where they are or all shifted by the same
\* amount, and every column block has the same members after the row as
\* before it.
C30_NoForkWithoutFORK ==
    (w.op = "fork_align" /\ ~w.FORK /\ ~Halted(w.st)) =>
        LET b == w.before.cols
            a == w.st.cols
        IN /\ ~Branches(w.st.line)
           /\ \A i, j \in 1..Len(b) :
                InTargetBlock(i, j) => a[i].c - b[i].c = a[j].c - b[j].c
           /\ \A i, j \in 1..Len(b) : (b[i].c = b[j].c) <=> (a[i].c = a[j].c)

\* fork_align without FORK ran on a target strictly inside a block of three
\* entries and shifted the block
C30_Witness ==
    /\ w.op = "fork_align"
    /\ ~w.FORK
    /\ ~Halted(w.st)
    /\ Cardinality(BlockOf(w.before.cols, w.idx)) = 3
    /\ ~AtBoundary(w.before.cols, w.idx)
    /\ w.st.cols[w.idx + 1].c # w.before.cols[w.idx + 1].c
    /\ \E i \in 1..Len(w.st.line) :
         w.st.line[i].k \in {"ShiftForkLeft", "ShiftForkRight"}

\* the primitive a write_branch call adds to the line: the branch behind all
\* the blanks that were queued when it was called, as one run
Flushed(before, after) ==
    /\ Len(after.line) = Len(before.line) + 1
    /\ SubSeq(after.line, 1, Len(before.line)) = before.line
    /\ after.line[Len(after.line)].ws = before.queued
    /\ after.queued = 0
    /\ after.rows = before.rows

\* C24: blanks requested with queue_blank are never written on their own:
\* queue_blank writes nothing, the next branch of the line carries all the
\* queued blanks as one leading run, write_newline and
\* write_annotation_line drop the blanks still queued, so the finished row
\* holds what was written and nothing else, the queue is empty when the next
\* line starts and the first branch of that line has no leading blanks.
C24_QueuedBlanks ==
    /\ w.op = "queue_blank" =>
          /\ w.st.line = w.before.line
          /\ w.st.rows = w.before.rows
          /\ w.st.queued = w.before.queued + w.n
    /\ w.op = "write_branch" => Flushed(w.before, w.st)
    /\ w.op \in {"write_newline", "write_annotation_line"} =>
          /\ w.st.rows = << [items |-> w.before.line,
                              ann |-> w.st.rows[1].ann,
                              bound |-> w.st.rows[1].bound] >>
          /\ w.st.rows[1].ann = 0 <=> w.op = "write_newline"
          /\ w.st.line = << >>
          /\ w.st.queued = 0
    /\ w.op = "next_line" =>
          /\ Flushed(w.before, w.st)
          /\ w.st.line[1].ws = 0

\* a row was finished while blanks were still queued behind its last branch
C24_Witness ==
    /\ w.op = "write_newline"
    /\ w.before.queued = MaxQueued
    /\ Len(w.before.line) = MaxLineItems
    /\ w.before.line[MaxLineItems].ws > 0

\* fork_exact ran on a block, came back and drew a branching
ForkPerformed ==
    /\ w.op = "fork_exact"
    /\ w.FORK
    /\ ~Halted(w.st)
    /\ Branches(w.st.line)

\* after the fork the entries before the target share one column, the
\* target has the next one to itself and the entries after the target share
\* the one after that; the leftmost of these columns is the lower bound
ForkedColumns ==
    LET a == w.st.cols
        t == w.idx + 1
        first == IF t = 1 THEN w.start - 1 ELSE w.start
    IN /\ \A i \in 1..(t - 1) : a[i].c = w.start
       /\ a[t].c = first + 1
       /\ \A i \in (t + 1)..Len(a) : a[i].c = first + 2

SlackLeft == w.before.cols[1].c - w.start
SlackRight == IF w.end = NoEnd THEN EXTRA
              ELSE SatSub(w.end, w.before.cols[1].c + 1)

\* the target is the first or the last entry of the block
BoundaryTarget == w.idx = 0 \/ w.idx + 1 = Len(w.before.cols)

\* fork_exact came back from a block for which it had no room to fork
NoRoomToFork ==
    /\ w.op = "fork_exact"
    /\ ~Halted(w.st)
    /\ IF BoundaryTarget
       THEN SlackLeft = 0 /\ SlackRight = 0
       ELSE SlackLeft + SlackRight < EXTRA

\* C32: failing soft: when there is no room to fork (boundary target: no
\* cell on the left and none on the right; interior target: fewer than two
\* cells on both sides together) fork_exact leaves every column of the block
\* unchanged, writes no fork primitive and returns an offset of at least the
\* block's column + 2.
C32_FailsSoft ==
    NoRoomToFork =>
        /\ w.st.cols = w.before.cols
        /\ ~Branches(w.st.line)
        /\ w.st.line # << >>
        /\ w.st.ret >= w.before.cols[1].c + 2

\* an interior target with one cell on the left and none on the right was
\* asked to fork
C32_Witness ==
    /\ NoRoomToFork
    /\ w.FORK
    /\ ~BoundaryTarget
    /\ SlackLeft = 1
    /\ w.st.ret = w.before.cols[1].c + 2

\* the last row was a fork row and the target still shares its column: the
\* fork was not performed
ForkFailed == RowDue /\ w.n >= 1 /\ w.FORK

\* the free cells on the two sides of the block of the target, as the next
\* fork_align row with the bounds ..end will find them: the left slice is
\* aligned first, which brings the block on the left no further than where
\* it stands, and the right side ends at the next block or at the end bound
RoomLeft(cols, idx) ==
    LET rg == column_range(cols, idx)
    IN IF rg.l = 0 THEN Col(cols, idx)
       ELSE Col(cols, idx) - Col(cols, rg.l - 1) - 1

RoomRight(cols, idx, end) ==
    LET rg == column_range(cols, idx)
    IN IF rg.r < Len(cols) THEN Col(cols, rg.r) - Col(cols, idx) - 1
       ELSE IF end = NoEnd THEN EXTRA
       ELSE SatSub(end, Col(cols, idx) + 1)

\* the block of the target has the room its fork needs
HasRoom(cols, idx, end) ==
    LET rg == column_range(cols, idx)
    IN IF idx = rg.l \/ idx + 1 = rg.r
       THEN RoomLeft(cols, idx) > 0 \/ RoomRight(cols, idx, end) > 0
       ELSE RoomLeft(cols, idx) + RoomRight(cols, idx, end) >= EXTRA

\* the end bound is at least the width the slice requires for the target,
\* as the diagram width of the generator is
WideEnough ==
    w.end = NoEnd \/ w.end >= required_width(w.st.cols, w.idx)

\* C33 as stated: a fork that was not performed on one row for lack of
\* slack is performed on the next fork_align row with the same target and
\* the same bounds (checked for the bounds that are wide enough).
C33_Original ==
    [][(ForkFailed /\ WideEnough /\ ForkRow)
          => is_singleton(w'.st.cols, w.idx)]_vars

\* C33: a fork that was not performed on one row for lack of slack is
\* performed on the next fork_align row with the same target and the same
\* bounds exactly when the failed row has left the block the room the fork
\* needs (one free cell beside a boundary target, two around an interior
\* one); otherwise it is delayed again.
C33_DelayedUntilRoom ==
    [][(ForkFailed /\ ForkRow) =>
          (is_singleton(w'.st.cols, w.idx)
             <=> HasRoom(w.st.cols, w.idx, w.end))]_vars

\* the fork failed on the first row and was performed on the second
C33_Witness ==
    /\ w.op = "rows"
    /\ w.n = 2
    /\ w.nfork = 2
    /\ ~Halted(w.st)
    /\ is_singleton(w.st.cols, w.idx)
    /\ Len(w.st.cols) = MaxOpsLen
    /\ w.st.cols[MaxOpsLen].c > w.st.cols[w.idx + 1].c

\* the last row was a prepare row that found the room the fork needs, and
\* the target still shares its column
Prepared ==
    /\ RowDue
    /\ w.n >= 1
    /\ ~w.FORK
    /\ HasRoom(w.before.cols, w.idx, w.end)

\* C34 as stated: after a prepare row (fork_align without FORK) on which
\* enough slack was found, a fork row with the same bounds performs the
\* fork and leaves the target in the column it had after the prepare row.
C34_Original ==
    [][(Prepared /\ WideEnough /\ ForkRow) =>
          /\ is_singleton(w'.st.cols, w.idx)
          /\ w'.st.cols[w.idx + 1].c = w.st.cols[w.idx + 1].c]_vars

\* C35: make_singleton terminates: on every sorted frontier and for every
\* target, fork_align rows with FORK and the bounds ..W, W at least
\* required_width(frontier, target), make the target alone in its column
\* after finitely many rows.  Every row of the loop adds one to w.n, so the
\* loop ends if its condition cannot hold from some count on: here no row
\* panics, the width stays sufficient, and the condition is false once
\* MaxOpsRows - 1 rows are written.
C35_MakeSingletonTerminates ==
    w.op = "rows" =>
        /\ ~Halted(w.st)
        /\ w.end >= required_width(w.st.cols, w.idx)
        /\ RowDue => w.n < MaxOpsRows - 1

\* the loop needed three rows: the target was isolated by the third
C35_Witness ==
    /\ w.op = "rows"
    /\ w.n = 3
    /\ w.nfork = 3
    /\ w.end = required_width(w.before.cols, w.idx)
    /\ ~is_singleton(w.before.cols, w.idx)
    /\ is_singleton(w.st.cols, w.idx)

\* a call that drew a vertex with an annotation of at least two lines and
\* was not the last one
LongAnnotationCall == OkCall("true") /\ last'.L >= 2

\* C36 as stated: for a vertex with L >= 2 annotation lines the fork that
\* isolates the next minimal vertex is never drawn on a row earlier than the
\* one carrying the last annotation line.
C36_Original ==
    [][LongAnnotationCall =>
          \A i \in 1..Len(rows') :
              rows'[i].ann \in 1..(last'.L - 1) => ~Branches(rows'[i].items)]_vars

\* C36: for a vertex with L >= 2 annotation lines the rows carrying the
\* lines 2..L-1 never draw the fork that isolates the next minimal vertex
\* (they are written with FORK = false); the marker row, which carries line
\* 1, does not draw it either when row_padding > 0, and is written with
\* FORK = true when row_padding = 0.
C36_ForkDeferred ==
    [][LongAnnotationCall =>
          \A i \in 1..Len(rows') :
              (\/ rows'[i].ann \in 2..(last'.L - 1)
               \/ rows'[i].ann = 1 /\ config.row_padding > 0)
                 => ~Branches(rows'[i].items)]_vars

\* a call with three annotation lines under row_padding 1 whose rows of the
\* first and second line reserved the room and whose row of the third line
\* drew the fork
C36_Witness ==
    /\ last.op = "ok" /\ ret = "true"
    /\ last.L = 3
    /\ config.row_padding = 1
    /\ Len(rows) >= 3
    /\ rows[3].ann = 3
    /\ Branches(rows[3].items)
    /\ ~Branches(rows[1].items)
    /\ ~Branches(rows[2].items)
    /\ Len(rows[2].items) >= 2

\* the cells of the row that stand left of the marker of vertex v
MarkerCell(row, v) ==
    LET chars == RenderLine(row.items)
    IN (CHOOSE i \in 1..Len(chars) : chars[i] = VertexChar(v)) - 1

\* C37: the marker of the drawn vertex is written at the cell equal to the
\* column its frontier entry had when the call started, whether the next
\* minimal index lies before, inside or after the substituted block, and
\* also when the fork on its left failed soft and asked for more room.
C37_MarkerInItsColumn ==
    [][IsCall /\ last'.op = "ok" /\ ret' \in {"true", "false"} =>
          /\ MarkerCount(<< rows'[1] >>, last'.vtx) = 1
          /\ MarkerCell(rows'[1], last'.vtx) = Col(columns, min_index)]_vars

\* the next minimal vertex stands left of the marker and its fork failed
\* soft on the marker row: that row draws no fork, the next one does
C37_Witness ==
    /\ last.op = "ok" /\ ret = "true"
    /\ last.col >= 1
    /\ min_index < last.l
    /\ config.row_padding = 0
    /\ Len(rows) >= 2
    /\ ~Branches(rows[1].items)
    /\ Branches(rows[2].items)
    /\ rows[2].ann = 0

\* the last call ran into an unsigned subtraction whose result is negative:
\* in fork_exact (column - offset), in align (next - cur - 1), or in the
\* blanks queued after the marker (min(offset, next column) - actual).  A
\* failed call also raises the flag for compute_min_idx().unwrap() on None,
\* which is told apart by the empty minimal index it stores.
Underflowed ==
    /\ last.uf
    /\ last.op = "err" => min_index # NoIndex

\* C39 as stated: in no state reachable through generator calls does an
\* unsigned subtraction of the layout code underflow.
C39_Original ==
    ~Underflowed

\* the chars through which an edge enters a cell from the row above, and
\* those through which it leaves towards the row below
EnterGlyphs == {"ns", "nw", "ne", "nsw", "nse", "nsew"}
LeaveGlyphs == {"ns", "sw", "se", "nsw", "nse", "sew", "nsew"}
MarkerGlyphs == { VertexChar(v) : v \in Vertices }

\* the cells of a written row at which an edge comes in from above; the
\* marker takes the edge of the vertex it draws
EntersAt(row) ==
    LET chars == RenderLine(row.items)
    IN { i - 1 : i \in { j \in 1..Len(chars) :
                            chars[j] \in EnterGlyphs \cup MarkerGlyphs } }

\* the cells of a written row at which an edge goes on below; the marker
\* hands on an edge when the vertex has children
LeavesAt(row, has_children) ==
    LET chars == RenderLine(row.items)
    IN { i - 1 : i \in { j \in 1..Len(chars) :
                            \/ chars[j] \in LeaveGlyphs
                            \/ has_children /\ chars[j] \in MarkerGlyphs } }

\* the columns that hold an entry of the frontier
ColumnsOf(cols) == { Col(cols, i) : i \in Indices(cols) }

\* the rows rs lead the edges from the columns in `from` to the columns in
\* `to` without a break
Continuous(from, rs, has_children, to) ==
    /\ rs = << >> => from = to
    /\ rs # << >> =>
         /\ EntersAt(rs[1]) = from
         /\ \A i \in 1..(Len(rs) - 1) :
               LeavesAt(rs[i], has_children) = EntersAt(rs[i + 1])
         /\ LeavesAt(rs[Len(rs)], has_children) = to

\* C38: on every row the generator writes, the primitive of every column
\* block stands at the cell where its edge has to connect: every edge
\* enters the first row of a call in the column its entry had before the
\* call, enters every later row in the cell where it left the row above,
\* and leaves the last row in the column its entry has after the call,
\* also when a fork that failed soft asked for more room than was written.
C38_RowContinuity ==
    [][IsCall /\ ret' \in {"true", "false", "failed"} =>
          Continuous(ColumnsOf(columns), rows', last'.r > last'.l,
                     ColumnsOf(columns'))]_vars

\* a call whose fork left of the marker failed soft and asked for an offset
\* beyond the marker, with a block right of the marker that the rest of the
\* row has to place; the fork is drawn on the row after
C38_Witness ==
    /\ last.op = "ok" /\ ret = "true"
    /\ min_index < last.l
    /\ last.r < Len(columns)
    /\ config.row_padding = 0
    /\ Len(rows) >= 2
    /\ ~Branches(rows[1].items)
    /\ Branches(rows[2].items)


============================================================================
